---- MODULE Spec2Model ----
(***************************************************************************)
(* PDF-PL: the pipeline parser, the command registry, the commands and the *)
(* execution engine of parser_pdfl_v2.py, over the document classes of     *)
(* main.py.  One behaviour is one call of parse_and_execute (or of         *)
(* PDFLExecutor.execute) with one context.                                 *)
(***************************************************************************)
EXTENDS Integers, Sequences, FiniteSets, TLC

\* ---------------------------------------------------------------- bounds
\* longest pipeline drawn from the full set of stage texts
MaxStages == 3
\* longest pipeline drawn from the well-formed stage texts only
MaxLong == 5
\* largest page count of a loaded document
MaxPages == 2

\* ------------------------------------------------------------ basic values
None == "None"

\* StreamState
SINGLE == "SingleStream"
MULTI == "MultiStream"

\* a parameter value that is a plain string
Str(s) == [t |-> "str", s |-> s]
\* a parameter value that is a string made of page-set parts
StrParts(ps) == [t |-> "str", parts |-> ps]
\* a parameter value that is a condition template
StrCond(c) == [t |-> "str", cond |-> c]

\* the parts of a page-set string: a number, a range a..b, $total, or a
\* part int() rejects
Num(n) == [k |-> "num", a |-> n, b |-> n]
Range(a, b) == [k |-> "range", a |-> a, b |-> b]
Total == [k |-> "total", a |-> 0, b |-> 0]
BadPart == [k |-> "bad", a |-> 0, b |-> 0]

\* exceptions
NoError == [type |-> "none", msg |-> "", arg |-> ""]
ValueError(msg, arg) == [type |-> "ValueError", msg |-> msg, arg |-> arg]
AttributeError(arg) == [type |-> "AttributeError", msg |-> "NoneType has no attribute state", arg |-> arg]
CapabilityFailure(op) == [type |-> "Exception", msg |-> "document capability failed", arg |-> op]

\* ------------------------------------------------------------ documents
\* main.py PDF: valid = the bytes parse as a PDF, n = pages of the bytes,
\* all = _pages is None, sel = _pages, images = len(_images)
PDFObj(valid, n, all, sel, images) ==
    [valid |-> valid, n |-> n, all |-> all, sel |-> sel, images |-> images]

NoContent == [kind |-> "None", items |-> <<>>]
PDF(doc) == [kind |-> "PDF", items |-> <<doc>>]
PDFList(docs) == [kind |-> "PDFList", items |-> docs]

\* Stream: id is the identity of the Stream object
Stream(id, content, state) == [id |-> id, content |-> content, state |-> state]
NoStream == [id |-> 0, content |-> NoContent, state |-> None]

RECURSIVE SeqSum(_)
SeqSum(s) == IF s = <<>> THEN 0 ELSE Head(s) + SeqSum(Tail(s))

RECURSIVE SelectSeq2(_, _)
\* the subsequence of s whose elements are below n and at least 0
SelectSeq2(s, n) ==
    IF s = <<>> THEN <<>>
    ELSE IF 0 <= Head(s) /\ Head(s) < n
         THEN <<Head(s)>> \o SelectSeq2(Tail(s), n)
         ELSE SelectSeq2(Tail(s), n)

\* PDF._get_selected_pages followed by the 0 <= page_num < len(reader.pages)
\* filter used by save, split_pages, to_png and merge_pdfs
ValidSelectedPages(doc) ==
    IF doc.all THEN [i \in 1..doc.n |-> i - 1] ELSE SelectSeq2(doc.sel, doc.n)

\* PDF.get_single_page: PDF(self) copies _data and _pages, not _images
get_single_page(doc, p) == PDFObj(doc.valid, doc.n, FALSE, <<p>>, 0)

\* PDF.split_pages (the reader must open)
split_pages(doc) ==
    LET ps == ValidSelectedPages(doc)
    IN [i \in 1..Len(ps) |-> get_single_page(doc, ps[i])]

\* PDF.merge_pdfs: one reader per document, the valid selected pages of each
merge_raises(docs) == \E i \in 1..Len(docs) : ~docs[i].valid
merge_pdfs(docs) ==
    PDFObj(TRUE, SeqSum([i \in 1..Len(docs) |-> Len(ValidSelectedPages(docs[i]))]),
           TRUE, <<>>, 0)

\* _merge_images: PDF(b'') carrying one image
merge_images_raises(docs) == SeqSum([i \in 1..Len(docs) |-> docs[i].images]) = 0
merge_images(docs) == PDFObj(FALSE, 0, TRUE, <<>>, 1)

\* pdflist_concat with others = []
pdflist_concat_raises(docs) ==
    IF \E i \in 1..Len(docs) : docs[i].images > 0
    THEN merge_images_raises(docs)
    ELSE merge_raises(docs)
pdflist_concat(docs) ==
    IF \E i \in 1..Len(docs) : docs[i].images > 0
    THEN merge_images(docs)
    ELSE merge_pdfs(docs)

\* pdf2image.convert_from_bytes on a document with no page to render is
\* left open: it returns an empty list or it raises
RasterizeCounts(doc) ==
    LET c == Len(ValidSelectedPages(doc))
    IN IF c = 0 THEN {0, -1} ELSE {c}

\* PDF.to_png: the set of outcomes [raised, doc]; _images is assigned only
\* when the conversion returns
to_png(doc) ==
    IF ~doc.valid
    THEN {[raised |-> TRUE, doc |-> doc]}
    ELSE {IF c < 0 THEN [raised |-> TRUE, doc |-> doc]
                   ELSE [raised |-> FALSE, doc |-> [doc EXCEPT !.images = c]]
          : c \in RasterizeCounts(doc)}

\* PDF.to_single_png: max() of no image raises; several images become one
to_single_png(doc) ==
    {IF o.raised THEN o
     ELSE IF o.doc.images = 1 THEN o
     ELSE IF o.doc.images = 0 THEN [raised |-> TRUE, doc |-> o.doc]
     ELSE [raised |-> FALSE, doc |-> [o.doc EXCEPT !.images = 1]]
     : o \in to_png(doc)}

\* pdf_to_png, installed as PDF.to_png_enhanced by extend_pdf_classes
pdf_to_png(doc, mode) ==
    IF ~doc.valid
    THEN {[raised |-> TRUE, doc |-> doc]}
    ELSE IF mode = "single" \/ (mode = "auto" /\ doc.n > 1)
         THEN to_single_png(doc)
         ELSE to_png(doc)

RECURSIVE pdflist_to_png(_, _)
\* pdflist_to_png: the documents in order, stopping at the first that raises
pdflist_to_png(docs, mode) ==
    IF docs = <<>>
    THEN {[raised |-> FALSE, docs |-> <<>>]}
    ELSE UNION {IF o.raised
                THEN {[raised |-> TRUE, docs |-> docs]}
                ELSE {[raised |-> r.raised, docs |-> <<o.doc>> \o r.docs]
                      : r \in pdflist_to_png(Tail(docs), mode)}
                : o \in pdf_to_png(Head(docs), mode)}

\* a file name written by save / save_images: base is the Save name, idx the
\* two-digit position in a PDFList (0 for a single document), page the
\* number in _page_N.png (0 for a .pdf)
FileName(base, idx, page, ext) == [base |-> base, idx |-> idx, page |-> page, ext |-> ext]

\* PDF.save_images
save_images(doc, base, idx) ==
    {FileName(base, idx,
              IF ~doc.all /\ Len(doc.sel) = 1 THEN doc.sel[1] + 1 ELSE i,
              "png") : i \in 1..doc.images}

\* pdf_save_enhanced: [raised, names]
pdf_save_enhanced(doc, base, idx) ==
    IF doc.images > 0
    THEN [raised |-> FALSE, names |-> save_images(doc, base, idx)]
    ELSE IF ~doc.all /\ ~doc.valid
         THEN [raised |-> TRUE, names |-> {}]
         ELSE [raised |-> FALSE, names |-> {FileName(base, idx, 0, "pdf")}]

RECURSIVE pdflist_save_from(_, _, _)
\* pdflist_save_enhanced from position i on: the files written before a
\* failing document stay written
pdflist_save_from(docs, base, i) ==
    IF i > Len(docs)
    THEN [raised |-> FALSE, names |-> {}]
    ELSE LET o == pdf_save_enhanced(docs[i], base, i)
         IN IF o.raised
            THEN o
            ELSE LET r == pdflist_save_from(docs, base, i + 1)
                 IN [raised |-> r.raised, names |-> o.names \cup r.names]

pdflist_save_enhanced(docs, base) == pdflist_save_from(docs, base, 1)

\* ------------------------------------------------------------ text
\* A Python str is the sequence of its characters, each a one-character
\* string.
WhiteSpace == {" ", "\t", "\n"}
Digits == {"0", "1", "2", "3", "4", "5", "6", "7", "8", "9"}
LowerLetters ==
    <<"a", "b", "c", "d", "e", "f", "g", "h", "i", "j", "k", "l", "m", "n", "o", "p", "q", "r",
      "s", "t", "u", "v", "w", "x", "y", "z">>
UpperLetters ==
    <<"A", "B", "C", "D", "E", "F", "G", "H", "I", "J", "K", "L", "M", "N", "O", "P", "Q", "R",
      "S", "T", "U", "V", "W", "X", "Y", "Z">>
\* the characters \w matches
WordChars ==
    Digits \cup {LowerLetters[k] : k \in 1..Len(LowerLetters)}
    \cup {UpperLetters[k] : k \in 1..Len(UpperLetters)} \cup {"_"}

\* str.lower
lower(s) ==
    [k \in 1..Len(s) |->
        IF \E j \in 1..Len(UpperLetters) : UpperLetters[j] = s[k]
        THEN LowerLetters[CHOOSE j \in 1..Len(UpperLetters) : UpperLetters[j] = s[k]]
        ELSE s[k]]

RECURSIVE lstrip(_)
lstrip(s) == IF s # <<>> /\ Head(s) \in WhiteSpace THEN lstrip(Tail(s)) ELSE s
RECURSIVE rstrip(_)
rstrip(s) == IF s # <<>> /\ s[Len(s)] \in WhiteSpace THEN rstrip(SubSeq(s, 1, Len(s) - 1)) ELSE s
\* str.strip
strip(s) == rstrip(lstrip(s))

\* s.find(c) as a position from 1, 0 when c is not in s
find(s, c) ==
    IF \E k \in 1..Len(s) : s[k] = c
    THEN CHOOSE k \in 1..Len(s) : s[k] = c /\ \A j \in 1..(k - 1) : s[j] # c
    ELSE 0

RECURSIVE split(_, _)
\* str.split(sep) for a one-character sep
split(s, sep) ==
    IF find(s, sep) = 0 THEN <<s>>
    ELSE <<SubSeq(s, 1, find(s, sep) - 1)>> \o split(SubSeq(s, find(s, sep) + 1, Len(s)), sep)

RECURSIVE IntOf(_)
\* int() of a text of digits
IntOf(s) ==
    IF s = <<>> THEN 0
    ELSE 10 * IntOf(SubSeq(s, 1, Len(s) - 1))
         + (CHOOSE d \in 0..9 : <<"0", "1", "2", "3", "4", "5", "6", "7", "8", "9">>[d + 1] = s[Len(s)])

RECURSIVE Pow(_, _)
Pow(b, e) == IF e = 0 THEN 1 ELSE b * Pow(b, e - 1)

\* ------------------------------------------------------------ page sets
RECURSIVE SetToSortedSeq(_)
SetToSortedSeq(S) ==
    IF S = {} THEN <<>>
    ELSE LET x == CHOOSE y \in S : \A z \in S : y <= z
         IN <<x>> \o SetToSortedSeq(S \ {x})

\* a range a..b taken without its last page
PartPages_open_range(part, total_pages) ==
    IF part.k = "range" THEN (part.a - 1)..(part.b - 2)
    ELSE IF part.k = "total" THEN {total_pages - 1}
    ELSE {part.a - 1}

\* the loop body of SelectCommand._parse_pages_string: the 0-based pages one
\* part adds
PartPages(part, total_pages) ==
    IF part.k = "range" THEN (part.a - 1)..(part.b - 1)
    ELSE IF part.k = "total" THEN {total_pages - 1}
    ELSE {part.a - 1}

\* SelectCommand._parse_pages_string; int() raises on a part that is no number
parse_pages_raises(parts) == \E i \in 1..Len(parts) : parts[i].k = "bad"
_parse_pages_string(parts, total_pages) ==
    SetToSortedSeq(UNION {PartPages(parts[i], total_pages) : i \in 1..Len(parts)})

\* ------------------------------------------------------------ conditions
DigitChars == <<"0", "1", "2", "3", "4", "5", "6", "7", "8", "9">>

RECURSIVE str(_)
\* str(n) of an int n >= 0
str(n) == IF n < 10 THEN <<DigitChars[n + 1]>> ELSE str(n \div 10) \o <<DigitChars[(n % 10) + 1]>>

RECURSIVE replace(_, _, _)
\* str.replace(old, new)
replace(s, old, new) ==
    IF Len(s) < Len(old) THEN s
    ELSE IF SubSeq(s, 1, Len(old)) = old
    THEN new \o replace(SubSeq(s, Len(old) + 1, Len(s)), old, new)
    ELSE <<Head(s)>> \o replace(Tail(s), old, new)

\* allowed_chars of _is_safe_expression
AllowedChars == Digits \cup {"+", "-", "*", "/", "%", "(", ")", " ", "=", "!", "<", ">", "&", "|"}

\* SelectCommand._is_safe_expression
_is_safe_expression(expr) == \A k \in 1..Len(expr) : expr[k] \in AllowedChars

\* ---- eval(expr) for a text of allowed characters: Python's tokens, its
\* expression grammar and its arithmetic.  An int is n with d = 1, a bool is
\* the int 1 or 0, a float is the fraction n / d with d > 0, and () is the
\* empty tuple.  The integers are those of TLC, and a float is held
\* exactly.
NumToken(n) == [k |-> "num", n |-> n, s |-> <<>>]
OpToken(s) == [k |-> "op", n |-> 0, s |-> s]
BadToken == [k |-> "bad", n |-> 0, s |-> <<>>]

TwoCharOps ==
    {<<"*", "*">>, <<"/", "/">>, <<"<", "<">>, <<">", ">">>, <<"<", "=">>, <<">", "=">>, <<"=", "=">>, <<"!", "=">>}

RECURSIVE DigitPrefixLen(_)
DigitPrefixLen(s) == IF s # <<>> /\ Head(s) \in Digits THEN 1 + DigitPrefixLen(Tail(s)) ELSE 0

\* a decimal literal: a leading zero is allowed in a literal of zeros only
LiteralToken(lit) ==
    IF Len(lit) > 1 /\ lit[1] = "0" /\ \E k \in 1..Len(lit) : lit[k] # "0"
    THEN BadToken ELSE NumToken(IntOf(lit))

RECURSIVE tokenize(_)
\* the tokens of the text: literals, the longest operator at each place
tokenize(s) ==
    IF s = <<>> THEN <<>>
    ELSE IF Head(s) = " " THEN tokenize(Tail(s))
    ELSE IF Head(s) \in Digits
    THEN <<LiteralToken(SubSeq(s, 1, DigitPrefixLen(s)))>>
         \o tokenize(SubSeq(s, DigitPrefixLen(s) + 1, Len(s)))
    ELSE IF Len(s) >= 2 /\ SubSeq(s, 1, 2) \in TwoCharOps
    THEN <<OpToken(SubSeq(s, 1, 2))>> \o tokenize(SubSeq(s, 3, Len(s)))
    ELSE <<OpToken(<<Head(s)>>)>> \o tokenize(Tail(s))

PyInt(n) == [t |-> "int", n |-> n, d |-> 1]
PyBool(b) == [t |-> "bool", n |-> IF b THEN 1 ELSE 0, d |-> 1]
PyFloat(n, d) == [t |-> "float", n |-> IF d < 0 THEN 0 - n ELSE n, d |-> IF d < 0 THEN 0 - d ELSE d]
PyTuple == [t |-> "tuple", n |-> 0, d |-> 1]

\* bool(v)
Truthy(v) == v.t # "tuple" /\ v.n # 0
IntLike(v) == v.t \in {"int", "bool"}

\* the value of an operation, or the exception it raised
Value(v) == [rt |-> TRUE, v |-> v]
Raised == [rt |-> FALSE, v |-> PyInt(0)]

\* int or float by the operand types
Number(a, b, n, d) == IF a.t = "float" \/ b.t = "float" THEN PyFloat(n, d) ELSE PyInt(n)

RECURSIVE FloorDiv(_, _)
\* floor(p / q) for q # 0
FloorDiv(p, q) ==
    IF q < 0 THEN FloorDiv(0 - p, 0 - q)
    ELSE IF p >= 0 THEN p \div q
    ELSE 0 - ((q - 1 - p) \div q)

RECURSIVE BitAnd(_, _)
\* a & b on two's-complement integers of any length
BitAnd(a, b) ==
    IF a = 0 \/ b = 0 THEN 0
    ELSE IF a = 0 - 1 THEN b
    ELSE IF b = 0 - 1 THEN a
    ELSE (IF a % 2 = 1 /\ b % 2 = 1 THEN 1 ELSE 0) + 2 * BitAnd(FloorDiv(a, 2), FloorDiv(b, 2))

RECURSIVE BitOr(_, _)
\* a | b on two's-complement integers of any length
BitOr(a, b) ==
    IF a = 0 THEN b
    ELSE IF b = 0 THEN a
    ELSE IF a = 0 - 1 \/ b = 0 - 1 THEN 0 - 1
    ELSE (IF a % 2 = 1 \/ b % 2 = 1 THEN 1 ELSE 0) + 2 * BitOr(FloorDiv(a, 2), FloorDiv(b, 2))

\* a ** b; an exponent that is no whole number is not modelled
Power(a, b) ==
    LET e == FloorDiv(b.n, b.d)
    whole == b.n = e * b.d
    IN IF ~whole THEN Raised
       ELSE IF e >= 0 THEN Value(Number(a, b, Pow(a.n, e), Pow(a.d, e)))
       ELSE IF a.n = 0 THEN Raised
       ELSE Value(PyFloat(Pow(a.d, 0 - e), Pow(a.n, 0 - e)))

\* a op b for an arithmetic, shift or bitwise operator
Binary(op, a, b) ==
    IF a.t = "tuple" \/ b.t = "tuple"
    THEN IF op = <<"+">> /\ a.t = "tuple" /\ b.t = "tuple" THEN Value(PyTuple)
         ELSE IF op = <<"*">> /\ (IntLike(a) \/ IntLike(b)) THEN Value(PyTuple)
         ELSE Raised
    ELSE CASE op = <<"+">> -> Value(Number(a, b, a.n * b.d + b.n * a.d, a.d * b.d))
           [] op = <<"-">> -> Value(Number(a, b, a.n * b.d - b.n * a.d, a.d * b.d))
           [] op = <<"*">> -> Value(Number(a, b, a.n * b.n, a.d * b.d))
           [] op = <<"/">> -> IF b.n = 0 THEN Raised ELSE Value(PyFloat(a.n * b.d, a.d * b.n))
           [] op = <<"/", "/">> ->
                IF b.n = 0 THEN Raised
                ELSE Value(Number(a, b, FloorDiv(a.n * b.d, a.d * b.n), 1))
           [] op = <<"%">> ->
                IF b.n = 0 THEN Raised
                ELSE Value(Number(a, b, a.n * b.d - FloorDiv(a.n * b.d, a.d * b.n) * b.n * a.d,
                                  a.d * b.d))
           [] op = <<"*", "*">> -> Power(a, b)
           [] op = <<"<", "<">> ->
                IF IntLike(a) /\ IntLike(b) /\ b.n >= 0 THEN Value(PyInt(a.n * Pow(2, b.n)))
                ELSE Raised
           [] op = <<">", ">">> ->
                IF IntLike(a) /\ IntLike(b) /\ b.n >= 0 THEN Value(PyInt(FloorDiv(a.n, Pow(2, b.n))))
                ELSE Raised
           [] op = <<"&">> ->
                IF IntLike(a) /\ IntLike(b) THEN Value(PyInt(BitAnd(a.n, b.n))) ELSE Raised
           [] op = <<"|">> ->
                IF IntLike(a) /\ IntLike(b) THEN Value(PyInt(BitOr(a.n, b.n))) ELSE Raised

\* +a and -a
Unary(op, a) ==
    IF a.t = "tuple" THEN Raised
    ELSE IF op = <<"-">> THEN Value(Number(a, a, 0 - a.n, a.d))
    ELSE Value(Number(a, a, a.n, a.d))

CompareOps == {<<"=", "=">>, <<"!", "=">>, <<"<">>, <<">">>, <<"<", "=">>, <<">", "=">>}

\* a op b for a comparison operator
Compare(op, a, b) ==
    IF a.t = "tuple" /\ b.t = "tuple" THEN Value(PyBool(op \in {<<"=", "=">>, <<"<", "=">>, <<">", "=">>}))
    ELSE IF a.t = "tuple" \/ b.t = "tuple"
    THEN IF op = <<"=", "=">> THEN Value(PyBool(FALSE))
         ELSE IF op = <<"!", "=">> THEN Value(PyBool(TRUE))
         ELSE Raised
    ELSE LET x == a.n * b.d
             y == b.n * a.d
         IN Value(PyBool(CASE op = <<"=", "=">> -> x = y
                           [] op = <<"!", "=">> -> x # y
                           [] op = <<"<">> -> x < y
                           [] op = <<">">> -> x > y
                           [] op = <<"<", "=">> -> x <= y
                           [] op = <<">", "=">> -> x >= y))

\* what parsing and evaluating from a token on gives: ok is FALSE for a
\* SyntaxError, rt is FALSE for an exception of the evaluation, v is the
\* value, rest the tokens not yet read
Parsed(rt, v, rest) == [ok |-> TRUE, rt |-> rt, v |-> v, rest |-> rest]
SyntaxError == [ok |-> FALSE, rt |-> FALSE, v |-> PyInt(0), rest |-> <<>>]

NextIs(ts, ops) == ts # <<>> /\ Head(ts).k = "op" /\ Head(ts).s \in ops

\* left op right once both are parsed
Apply(op, left, right) ==
    IF ~left.ok \/ ~right.ok THEN SyntaxError
    ELSE IF ~left.rt \/ ~right.rt THEN Parsed(FALSE, PyInt(0), right.rest)
    ELSE Parsed(Binary(op, left.v, right.v).rt, Binary(op, left.v, right.v).v, right.rest)

\* the binary operators from the loosest to the tightest level: bitwise_or,
\* bitwise_and, shift_expr, sum, term
LevelOps ==
    <<{<<"|">>}, {<<"&">>}, {<<"<", "<">>, <<">", ">">>}, {<<"+">>, <<"-">>},
      {<<"*">>, <<"/">>, <<"/", "/">>, <<"%">>}>>

RECURSIVE py_comparison(_), py_chain(_, _, _), py_binary(_, _), py_binary_rest(_, _)
RECURSIVE py_factor(_), py_power(_), py_primary_rest(_), py_atom(_)

\* comparison: bitwise_or (compare_op bitwise_or)*
py_comparison(ts) ==
    LET first == py_binary(1, ts)
    IN IF first.ok /\ NextIs(first.rest, CompareOps) THEN py_chain(first, TRUE, first.rt) ELSE first

\* a chain a < b < c is a < b and b < c: an operand after a comparison that
\* was false is not evaluated
py_chain(last, alive, rt) ==
    IF NextIs(last.rest, CompareOps)
    THEN LET op == Head(last.rest).s
             next == py_binary(1, Tail(last.rest))
         IN IF ~next.ok THEN SyntaxError
            ELSE IF ~rt THEN py_chain(next, alive, FALSE)
            ELSE IF ~alive THEN py_chain(next, FALSE, TRUE)
            ELSE IF ~next.rt THEN py_chain(next, alive, FALSE)
            ELSE py_chain(next,
                          Compare(op, last.v, next.v).rt /\ Truthy(Compare(op, last.v, next.v).v),
                          Compare(op, last.v, next.v).rt)
    ELSE Parsed(rt, PyBool(alive), last.rest)

\* one level of left-associative binary operators
py_binary(level, ts) ==
    IF level > Len(LevelOps) THEN py_factor(ts)
    ELSE py_binary_rest(level, py_binary(level + 1, ts))

py_binary_rest(level, left) ==
    IF left.ok /\ NextIs(left.rest, LevelOps[level])
    THEN py_binary_rest(level, Apply(Head(left.rest).s, left,
                                     py_binary(level + 1, Tail(left.rest))))
    ELSE left

\* factor: ('+' | '-') factor | power
py_factor(ts) ==
    IF NextIs(ts, {<<"+">>, <<"-">>})
    THEN LET f == py_factor(Tail(ts))
         IN IF ~f.ok THEN SyntaxError
            ELSE IF ~f.rt THEN f
            ELSE Parsed(Unary(Head(ts).s, f.v).rt, Unary(Head(ts).s, f.v).v, f.rest)
    ELSE py_power(ts)

\* power: primary ['**' factor]
py_power(ts) ==
    LET base == py_primary_rest(py_atom(ts))
    IN IF base.ok /\ NextIs(base.rest, {<<"*", "*">>})
       THEN Apply(<<"*", "*">>, base, py_factor(Tail(base.rest)))
       ELSE base

\* primary: a '(' after an atom is a call, and a call of a number raises
py_primary_rest(callee) ==
    IF callee.ok /\ NextIs(callee.rest, {<<"(">>})
    THEN IF NextIs(Tail(callee.rest), {<<")">>})
         THEN py_primary_rest(Parsed(FALSE, PyInt(0), Tail(Tail(callee.rest))))
         ELSE LET arg == py_comparison(Tail(callee.rest))
              IN IF arg.ok /\ NextIs(arg.rest, {<<")">>})
                 THEN py_primary_rest(Parsed(FALSE, PyInt(0), Tail(arg.rest)))
                 ELSE SyntaxError
    ELSE callee

\* atom: a literal, (), or an expression in parentheses
py_atom(ts) ==
    IF ts = <<>> THEN SyntaxError
    ELSE IF Head(ts).k = "num" THEN Parsed(TRUE, PyInt(Head(ts).n), Tail(ts))
    ELSE IF NextIs(ts, {<<"(">>})
    THEN IF NextIs(Tail(ts), {<<")">>}) THEN Parsed(TRUE, PyTuple, Tail(Tail(ts)))
         ELSE LET inner == py_comparison(Tail(ts))
              IN IF inner.ok /\ NextIs(inner.rest, {<<")">>})
                 THEN Parsed(inner.rt, inner.v, Tail(inner.rest))
                 ELSE SyntaxError
    ELSE SyntaxError

\* if eval(expr): "true", "false", or "raise" for any exception
eval(expr) ==
    LET r == py_comparison(tokenize(expr))
    IN IF ~r.ok \/ r.rest # <<>> \/ ~r.rt THEN "raise"
       ELSE IF Truthy(r.v) THEN "true" ELSE "false"

\* the two replace calls of _evaluate_condition
Substitute(condition, page_num, total_pages) ==
    replace(replace(condition, <<"$", "p", "a", "g", "e">>, str(page_num)), <<"$", "t", "o", "t", "a", "l">>, str(total_pages))

\* the body of the loop of _evaluate_condition for one page: "true", "false",
\* "raise", or "unsafe" when the text is not evaluated
PageOutcome(condition, page_num, total_pages) ==
    IF _is_safe_expression(Substitute(condition, page_num, total_pages))
    THEN eval(Substitute(condition, page_num, total_pages))
    ELSE "unsafe"

RECURSIVE evaluate_loop_break(_, _, _, _, _)
\* the loop leaving at the first exception
evaluate_loop_break(condition, total_pages, page_num, last_page, pages) ==
    IF page_num > last_page \/ PageOutcome(condition, page_num, total_pages) = "raise" THEN pages
    ELSE evaluate_loop_break(condition, total_pages, page_num + 1, last_page,
                             IF PageOutcome(condition, page_num, total_pages) = "true"
                             THEN Append(pages, page_num - 1) ELSE pages)

RECURSIVE evaluate_loop(_, _, _, _, _)
\* the loop of _evaluate_condition from page_num to last_page
evaluate_loop(condition, total_pages, page_num, last_page, pages) ==
    IF page_num > last_page THEN pages
    ELSE evaluate_loop(condition, total_pages, page_num + 1, last_page,
                       IF PageOutcome(condition, page_num, total_pages) = "true"
                       THEN Append(pages, page_num - 1) ELSE pages)

\* the loop over range(1, total_pages)
_evaluate_condition_short_range(condition, total_pages) ==
    evaluate_loop(condition, total_pages, 1, total_pages - 1, <<>>)

\* SelectCommand._evaluate_condition
_evaluate_condition(condition, total_pages) ==
    evaluate_loop(condition, total_pages, 1, total_pages, <<>>)

\* ------------------------------------------------------------ the world
\* What a command can read and change, as one record m:
\*   ctx       the PipelineContext
\*   fs_dirs   the directories that exist
\*   fs_files  the files that exist, as [dir, name]
\*   archives  the zip files in output_dir, as [zip, entries]
\*   calls     the Document-capability calls made so far
\*   streams   the number of Stream objects constructed
\*   made      the number of tempfile.mkdtemp calls
\*   gtd       what each get_temp_dir call returned
\*   log       the lines printed by PipelineContext.log

\* the paths tempfile.mkdtemp can hand out
TempNames == <<"/tmp/tmpA", "/tmp/tmpB", "/tmp/tmpC", "/tmp/tmpD", "/tmp/tmpE", "/tmp/tmpF", "/tmp/tmpG">>

File(dir, name) == [dir |-> dir, name |-> name]

\* PipelineContext.log
Log(m, message, arg, level) ==
    IF m.ctx.debug_mode \/ level = "ERROR"
    THEN [m EXCEPT !.log = Append(@, [level |-> level, step |-> m.ctx.current_step,
                                      total |-> m.ctx.total_steps,
                                      message |-> message, arg |-> arg])]
    ELSE m

\* mkdtemp handing out one fixed path
mkdtemp_fixed(m) == TempNames[1]

\* tempfile.mkdtemp: the directory it creates did not exist before the call;
\* the name is the first of TempNames that no existing directory has, so a
\* name is handed out again once its directory is gone
mkdtemp(m) ==
    TempNames[CHOOSE k \in 1..Len(TempNames) :
                 /\ TempNames[k] \notin m.fs_dirs
                 /\ \A j \in 1..(k - 1) : TempNames[j] \in m.fs_dirs]

\* get_temp_dir without the "is None" test: a new directory on every call
get_temp_dir_always_new(m) ==
    LET m1 == [m EXCEPT !.ctx.temp_dir = mkdtemp(m),
                        !.fs_dirs = @ \cup {mkdtemp(m)},
                        !.made = @ + 1]
    IN [m1 EXCEPT !.gtd = Append(@, [path |-> m1.ctx.temp_dir,
                                     exists |-> m1.ctx.temp_dir \in m1.fs_dirs])]

\* PipelineContext.get_temp_dir
get_temp_dir(m) ==
    LET m1 == IF m.ctx.temp_dir = None
              THEN [m EXCEPT !.ctx.temp_dir = mkdtemp(m),
                             !.fs_dirs = @ \cup {mkdtemp(m)},
                             !.made = @ + 1]
              ELSE m
    IN [m1 EXCEPT !.gtd = Append(@, [path |-> m1.ctx.temp_dir,
                                     exists |-> m1.ctx.temp_dir \in m1.fs_dirs])]

RECURSIVE RemoveFiles(_, _)
\* the loop over temp_files of PipelineContext.cleanup
RemoveFiles(files, paths) ==
    IF paths = <<>> THEN files
    ELSE RemoveFiles(files \ {Head(paths)}, Tail(paths))

\* cleanup without the rmtree of temp_dir
cleanup_no_rmtree(m) == [m EXCEPT !.fs_files = RemoveFiles(@, m.ctx.temp_files)]

\* cleanup that also removes what the run wrote to output_dir
cleanup_rollback(m) ==
    [cleanup_no_rmtree(m) EXCEPT
        !.fs_dirs = @ \ {m.ctx.temp_dir, m.ctx.output_dir},
        !.fs_files = {f \in @ : f.dir # m.ctx.temp_dir},
        !.archives = {}]

\* PipelineContext.cleanup: shutil.rmtree(temp_dir), then os.remove of every
\* temp file that exists
cleanup(m) ==
    LET m1 == IF m.ctx.temp_dir # None /\ m.ctx.temp_dir \in m.fs_dirs
              THEN [m EXCEPT !.fs_dirs = @ \ {m.ctx.temp_dir},
                             !.fs_files = {f \in @ : f.dir # m.ctx.temp_dir}]
              ELSE m
    IN [m1 EXCEPT !.fs_files = RemoveFiles(@, m.ctx.temp_files)]

\* one Document-capability call
Call(m, op) == [m EXCEPT !.calls = Append(@, [op |-> op, step |-> m.ctx.current_step])]

RECURSIVE Calls(_, _, _)
Calls(m, op, n) == IF n = 0 THEN m ELSE Calls(Call(m, op), op, n - 1)

\* what command.execute does: it raises error, or it returns stream
Raise(m, error) == [m |-> m, stream |-> NoStream, error |-> error]
Return(m, stream) == [m |-> m, stream |-> stream, error |-> NoError]

\* Stream(content, state): a new Stream object
NewStream(m, content, state) ==
    Return([m EXCEPT !.streams = @ + 1], Stream(m.streams + 1, content, state))

HasParam(params, key) == key \in DOMAIN params

\* the documents PDF(url) can produce: 1..MaxPages pages, or bytes that are
\* no PDF (PDF.__init__ reads the bytes without parsing them)
Documents ==
    {PDFObj(TRUE, n, TRUE, <<>>, 0) : n \in 1..MaxPages} \cup {PDFObj(FALSE, 0, TRUE, <<>>, 0)}

\* ------------------------------------------------------------ commands
\* LoadCommand.execute
LoadCommand_execute(params, input_stream, m) ==
    IF input_stream # NoStream
    THEN {Raise(m, ValueError("Load must be the first command", "Load"))}
    ELSE IF ~HasParam(params, "url") \/ params.url = Str("")
    THEN {Raise(m, ValueError("Load needs the url parameter", "Load"))}
    ELSE LET m1 == Call(Log(m, "load", params.url.s, "INFO"), "PDF")
         IN {Raise(m1, CapabilityFailure("PDF"))}
            \cup {NewStream([m1 EXCEPT !.ctx.metadata.source_url = params.url.s],
                            PDF(doc), SINGLE) : doc \in Documents}

\* the pages and where branches returning the list as a SingleStream
SelectPages_as_single(m, doc, pages) ==
    NewStream(Calls(m, "get_single_page", Len(pages)),
              PDFList([i \in 1..Len(pages) |-> get_single_page(doc, pages[i])]), SINGLE)

\* the branch of SelectCommand.execute shared by pages and where:
\* PDFList([pdf.get_single_page(p) for p in pages])
SelectPages(m, doc, pages) ==
    NewStream(Calls(m, "get_single_page", Len(pages)),
              PDFList([i \in 1..Len(pages) |-> get_single_page(doc, pages[i])]), MULTI)

\* SelectCommand.execute
SelectCommand_execute(params, input_stream, m) ==
    IF input_stream = NoStream
    THEN {Raise(m, AttributeError("Select"))}
    ELSE IF input_stream.state # SINGLE
    THEN {Raise(m, ValueError("Select applies to SingleStream only", "Select"))}
    ELSE LET pdf == input_stream.content.items[1] IN
         IF HasParam(params, "mode")
         THEN IF params.mode = Str("each")
              THEN LET m1 == Call(Log(m, "select each page", "", "INFO"), "split_pages")
                   IN IF ~pdf.valid
                      THEN {Raise(m1, CapabilityFailure("split_pages"))}
                      ELSE {NewStream(m1, PDFList(split_pages(pdf)), MULTI)}
              ELSE {Raise(m, ValueError("unsupported mode value", "Select"))}
         ELSE IF HasParam(params, "pages")
         THEN LET m1 == Call(Log(m, "select pages", "", "INFO"), "get_page_count")
              IN IF ~pdf.valid
                 THEN {Raise(m1, CapabilityFailure("get_page_count"))}
                 ELSE IF parse_pages_raises(params.pages.parts)
                 THEN {Raise(m1, ValueError("invalid literal for int()", "Select"))}
                 ELSE {SelectPages(m1, pdf, _parse_pages_string(params.pages.parts, pdf.n))}
         ELSE IF HasParam(params, "where")
         THEN LET m1 == Call(Log(m, "select by condition", "", "INFO"), "get_page_count")
              IN IF ~pdf.valid
                 THEN {Raise(m1, CapabilityFailure("get_page_count"))}
                 ELSE {SelectPages(m1, pdf, _evaluate_condition(params.where.cond, pdf.n))}
         ELSE {Raise(m, ValueError("Select needs mode, pages or where", "Select"))}

\* ConcatCommand.execute with the state test after the concat call
ConcatCommand_execute_late_check(params, input_stream, m) ==
    IF input_stream = NoStream
    THEN {Raise(m, AttributeError("Concat"))}
    ELSE LET pdf_list == input_stream.content.items
             m1 == Call(Log(m, "concat", "", "INFO"), "concat")
         IN IF input_stream.state # MULTI
            THEN {Raise(m1, ValueError("Concat applies to MultiStream only", "Concat"))}
            ELSE IF pdflist_concat_raises(pdf_list)
            THEN {Raise(m1, CapabilityFailure("concat"))}
            ELSE {NewStream(m1, PDF(pdflist_concat(pdf_list)), SINGLE)}

\* ConcatCommand.execute
ConcatCommand_execute(params, input_stream, m) ==
    IF input_stream = NoStream
    THEN {Raise(m, AttributeError("Concat"))}
    ELSE IF input_stream.state # MULTI
    THEN {Raise(m, ValueError("Concat applies to MultiStream only", "Concat"))}
    ELSE LET pdf_list == input_stream.content.items
             m1 == Call(Log(m, "concat", "", "INFO"), "concat")
         IN IF pdflist_concat_raises(pdf_list)
            THEN {Raise(m1, CapabilityFailure("concat"))}
            ELSE {NewStream(m1, PDF(pdflist_concat(pdf_list)), SINGLE)}

\* PNGCommand.execute returning SingleStream for a MultiStream input
PNGCommand_execute_always_single(params, input_stream, m) ==
    LET mode == IF HasParam(params, "mode") THEN params.mode.s ELSE "multipage"
        m1 == Log(m, "convert to PNG", mode, "INFO")
    IN IF input_stream = NoStream
       THEN {Raise(m1, AttributeError("PNG"))}
       ELSE IF input_stream.state = SINGLE
       THEN {IF o.raised
             THEN Raise(Call(m1, "to_png"), CapabilityFailure("to_png"))
             ELSE NewStream(Call(m1, "to_png"), PDF(o.doc), SINGLE)
             : o \in pdf_to_png(input_stream.content.items[1], mode)}
       ELSE {IF o.raised
             THEN Raise(Call(m1, "to_png"), CapabilityFailure("to_png"))
             ELSE NewStream(Call(m1, "to_png"), PDFList(o.docs), SINGLE)
             : o \in pdflist_to_png(input_stream.content.items, mode)}

\* PNGCommand.execute: to_png_enhanced changes the content in place, the
\* result is a new Stream around it
PNGCommand_execute(params, input_stream, m) ==
    LET mode == IF HasParam(params, "mode") THEN params.mode.s ELSE "multipage"
        m1 == Log(m, "convert to PNG", mode, "INFO")
    IN IF input_stream = NoStream
       THEN {Raise(m1, AttributeError("PNG"))}
       ELSE IF input_stream.state = SINGLE
       THEN {IF o.raised
             THEN Raise(Call(m1, "to_png"), CapabilityFailure("to_png"))
             ELSE NewStream(Call(m1, "to_png"), PDF(o.doc), SINGLE)
             : o \in pdf_to_png(input_stream.content.items[1], mode)}
       ELSE IF input_stream.state = MULTI
       THEN {IF o.raised
             THEN Raise(Call(m1, "to_png"), CapabilityFailure("to_png"))
             ELSE NewStream(Call(m1, "to_png"), PDFList(o.docs), MULTI)
             : o \in pdflist_to_png(input_stream.content.items, mode)}
       ELSE {Raise(m1, ValueError("PNG does not support the stream state", "PNG"))}

\* the zip step of SaveCommand.execute: os.makedirs(output_dir), then every
\* file found under temp_dir goes into output_dir/name.zip
WriteZip(m, name, temp_dir) ==
    [m EXCEPT !.fs_dirs = @ \cup {m.ctx.output_dir},
              !.archives = {a \in @ : a.zip # name}
                           \cup {[zip |-> name,
                                  entries |-> {f.name : f \in {g \in m.fs_files : g.dir = temp_dir}}]}]

\* SaveCommand.execute returning a new Stream around the same content
SaveReturn_new_stream(m, input_stream) ==
    NewStream(m, input_stream.content, input_stream.state)

\* SaveCommand.execute, line 463: return input_stream
SaveReturn(m, input_stream) == Return(m, input_stream)

\* SaveCommand.execute: get_temp_dir comes before the first look at the
\* stream; the stream received is the stream returned
SaveCommand_execute(params, input_stream, m) ==
    LET name == IF HasParam(params, "name") THEN params.name.s ELSE "output"
        m1 == get_temp_dir(Log(m, "save", name, "INFO"))
        temp_dir == m1.ctx.temp_dir
    IN IF input_stream = NoStream
       THEN {Raise(m1, AttributeError("Save"))}
       ELSE LET o == IF input_stream.state = SINGLE
                     THEN pdf_save_enhanced(input_stream.content.items[1], name, 0)
                     ELSE IF input_stream.state = MULTI
                     THEN pdflist_save_enhanced(input_stream.content.items, name)
                     ELSE [raised |-> FALSE, names |-> {}]
                \* PDF.save and PDF.save_images start with os.makedirs(dest)
                made_dest == input_stream.state = SINGLE
                             \/ (input_stream.state = MULTI /\ input_stream.content.items # <<>>)
                m2 == [Call(m1, "save_enhanced") EXCEPT
                          !.fs_dirs = IF made_dest THEN @ \cup {temp_dir} ELSE @,
                          !.fs_files = @ \cup {File(temp_dir, n) : n \in o.names}]
            IN IF o.raised
               THEN {Raise(m2, CapabilityFailure("save_enhanced"))}
               ELSE {SaveReturn(Log(WriteZip(m2, name, temp_dir), "saved", name, "INFO"),
                                input_stream)}

\* RotateCommand.execute
RotateCommand_execute(params, input_stream, m) ==
    {Return(Log(m, "rotate", "", "INFO"), input_stream)}

\* ------------------------------------------------------------ registry
\* the registrations made by @registry.register: name -> command class
registry ==
    [Load |-> "LoadCommand", Select |-> "SelectCommand", Concat |-> "ConcatCommand",
     PNG |-> "PNGCommand", Save |-> "SaveCommand", Rotate |-> "RotateCommand"]

\* the base class of each command class
BaseClass ==
    [LoadCommand |-> "Generator", SelectCommand |-> "Transformer",
     ConcatCommand |-> "Transformer", PNGCommand |-> "Transformer",
     SaveCommand |-> "Consumer", RotateCommand |-> "Transformer"]

\* isinstance(cmd, Generator)
IsGenerator(cmd) == BaseClass[cmd.cls] = "Generator"

\* ------------------------------------------------------------ parser
\* The pipeline text is the sequence of its '|'-separated stage strings; a
\* stage string is the identifier the regular expression of _parse_command
\* finds at its start ("" when there is none) and the ','-separated
\* segments of its brace block (none without a block or with an empty one).
\* A segment is key ':' value, or a text without ':'.
StageText(name, segs) == [name |-> name, segs |-> segs]
Seg(key, value) == [key |-> key, colon |-> TRUE, value |-> value]
NoColonSeg(text) == [key |-> text, colon |-> FALSE, value |-> [quoted |-> FALSE, v |-> Str("")]]
\* a value token: wrapped in matching quotes, or bare
Quoted(v) == [quoted |-> TRUE, v |-> v]
Bare(v) == [quoted |-> FALSE, v |-> v]

\* PDFLParser._parse_value: quotes are stripped; a bare true/false becomes a
\* boolean; any other token drawn here is no number and stays a string
_parse_value(tok) ==
    IF tok.quoted THEN tok.v
    ELSE IF tok.v = Str("true") THEN [t |-> "bool", b |-> TRUE]
    ELSE IF tok.v = Str("false") THEN [t |-> "bool", b |-> FALSE]
    ELSE tok.v

\* PDFLParser._parse_parameters: a later duplicate key overwrites
parse_parameters_raises(segs) == \E i \in 1..Len(segs) : ~segs[i].colon
_parse_parameters(segs) ==
    [key \in {segs[i].key : i \in 1..Len(segs)} |->
        _parse_value(segs[CHOOSE i \in 1..Len(segs) :
                             /\ segs[i].key = key
                             /\ \A j \in 1..Len(segs) : segs[j].key = key => j <= i].value)]

Command(name, cls, params) == [name |-> name, cls |-> cls, params |-> params]
NoParams == [key \in {} |-> Str("")]
NoCommand == Command("", "", NoParams)

\* get_command looking the name up in the registrations made when the
\* module was loaded, whatever was registered since
get_command_at_import(_commands, name) ==
    IF name \notin DOMAIN registry
    THEN [error |-> ValueError("unknown command", name), cls |-> ""]
    ELSE [error |-> NoError, cls |-> registry[name]]

\* CommandRegistry.get_command on the dictionary _commands: [error, cls]
get_command(_commands, name) ==
    IF name \notin DOMAIN _commands
    THEN [error |-> ValueError("unknown command", name), cls |-> ""]
    ELSE [error |-> NoError, cls |-> _commands[name]]

\* PDFLParser._parse_command with the registry holding _commands
parse_command_in(_commands, cmd_str) ==
    IF cmd_str.name = ""
    THEN [error |-> ValueError("invalid command format", cmd_str.name), command |-> NoCommand]
    ELSE IF get_command(_commands, cmd_str.name).error # NoError
    THEN [error |-> get_command(_commands, cmd_str.name).error, command |-> NoCommand]
    ELSE IF parse_parameters_raises(cmd_str.segs)
    THEN [error |-> ValueError("invalid parameter format", cmd_str.name), command |-> NoCommand]
    ELSE [error |-> NoError,
          command |-> Command(cmd_str.name, get_command(_commands, cmd_str.name).cls,
                              _parse_parameters(cmd_str.segs))]

\* PDFLParser._parse_command: [error, command]
_parse_command(cmd_str) == parse_command_in(registry, cmd_str)

\* _validate_pipeline without the test of commands[0]
_validate_pipeline_no_first(commands) ==
    IF commands = <<>>
    THEN ValueError("pipeline must not be empty", "")
    ELSE IF \E i \in 2..Len(commands) : IsGenerator(commands[i])
    THEN ValueError("generator only as the first command", "Load")
    ELSE NoError

\* _validate_pipeline without the loop over commands[1:]
_validate_pipeline_no_later(commands) ==
    IF commands = <<>>
    THEN ValueError("pipeline must not be empty", "")
    ELSE IF ~IsGenerator(commands[1])
    THEN ValueError("first command must be a generator", commands[1].name)
    ELSE NoError

\* PDFLParser._validate_pipeline: the error it raises, NoError when it returns
_validate_pipeline(commands) ==
    IF commands = <<>>
    THEN ValueError("pipeline must not be empty", "")
    ELSE IF ~IsGenerator(commands[1])
    THEN ValueError("first command must be a generator", commands[1].name)
    ELSE IF \E i \in 2..Len(commands) : IsGenerator(commands[i])
    THEN ValueError("generator only as the first command",
                    commands[CHOOSE i \in 2..Len(commands) :
                                /\ IsGenerator(commands[i])
                                /\ \A j \in 2..Len(commands) : IsGenerator(commands[j]) => i <= j].name)
    ELSE NoError

\* parse that drops the stage strings _parse_command rejects and does not
\* validate
parse_lenient(pipeline_text) ==
    LET parsed == [i \in 1..Len(pipeline_text) |-> _parse_command(pipeline_text[i])]
        ok(r) == r.error = NoError
        kept == SelectSeq(parsed, ok)
    IN [error |-> NoError, commands |-> [i \in 1..Len(kept) |-> kept[i].command]]

\* PDFLParser.parse: [error, commands]; the first stage string that fails
\* decides the error
parse(pipeline_text) ==
    IF pipeline_text = <<>>
    THEN [error |-> ValueError("pipeline must not be empty", ""), commands |-> <<>>]
    ELSE LET parsed == [i \in 1..Len(pipeline_text) |-> _parse_command(pipeline_text[i])]
             failed == {i \in 1..Len(parsed) : parsed[i].error # NoError}
         IN IF failed # {}
            THEN [error |-> parsed[CHOOSE i \in failed : \A j \in failed : i <= j].error,
                  commands |-> <<>>]
            ELSE LET commands == [i \in 1..Len(parsed) |-> parsed[i].command]
                 IN [error |-> _validate_pipeline(commands),
                     commands |-> IF _validate_pipeline(commands) = NoError
                                  THEN commands ELSE <<>>]

\* ------------------------------------------------------------ inputs
ParseAndExecute == "parse_and_execute"
Execute == "PDFLExecutor.execute"

\* Load{url:"a.pdf"}
T_Load == StageText("Load", <<Seg("url", Quoted(Str("a.pdf")))>>)
\* Load
T_LoadNoUrl == StageText("Load", <<>>)
\* Select{mode:"each"}
T_SelectEach == StageText("Select", <<Seg("mode", Quoted(Str("each")))>>)
\* Select{mode:all}
T_SelectAll == StageText("Select", <<Seg("mode", Bare(Str("all")))>>)
\* Select{pages:"1 $total"}
T_SelectPages == StageText("Select", <<Seg("pages", Quoted(StrParts(<<Num(1), Total>>)))>>)
\* Select{where:"$page % 2 == 1"}
T_SelectWhere ==
    StageText("Select", <<Seg("where", Quoted(StrCond(<<"$", "p", "a", "g", "e", " ", "%", " ", "2", " ", "=", "=", " ", "1">>)))>>)
\* Select
T_SelectNone == StageText("Select", <<>>)
\* Concat
T_Concat == StageText("Concat", <<>>)
\* PNG
T_PNG == StageText("PNG", <<>>)
\* PNG{mode:"single"}
T_PNGSingle == StageText("PNG", <<Seg("mode", Quoted(Str("single")))>>)
\* Save{name:"out"}
T_Save == StageText("Save", <<Seg("name", Quoted(Str("out")))>>)
\* Rotate
T_Rotate == StageText("Rotate", <<>>)
\* Merge: no such command
T_Unknown == StageText("Merge", <<>>)
\* an empty stage string, or one that starts with '{'
T_NoName == StageText("", <<>>)
\* Load{url}
T_NoColon == StageText("Load", <<NoColonSeg("url")>>)

\* the stage strings that parse and whose command can run
CoreTexts == {T_Load, T_SelectEach, T_Concat, T_PNG, T_Save, T_Rotate}
\* the other stage strings that parse
OtherTexts == {T_LoadNoUrl, T_SelectAll, T_SelectPages, T_SelectWhere, T_SelectNone, T_PNGSingle}
\* the stage strings the parser rejects
BadTexts == {T_Unknown, T_NoName, T_NoColon}

SeqsUpTo(S, n) == UNION {[1..k -> S] : k \in 0..n}

\* the pipeline texts: every text of at most MaxStages stage strings, and
\* every text of at most MaxLong core stage strings
PipelineTexts ==
    SeqsUpTo(CoreTexts \cup OtherTexts \cup BadTexts, MaxStages) \cup SeqsUpTo(CoreTexts, MaxLong)

\* the command lists handed to PDFLExecutor.execute directly
CommandLists ==
    {[i \in 1..Len(t) |-> _parse_command(t[i]).command]
     : t \in SeqsUpTo(CoreTexts \cup OtherTexts, MaxStages)}

\* a file the caller tracks in temp_files
ScratchFile == File("/work", FileName("scratch", 0, 0, "tmp"))

\* PipelineContext(...): the fields at construction
PipelineContext(debug_mode, temp_files) ==
    [output_dir |-> "./output", temp_dir |-> None, debug_mode |-> debug_mode,
     current_step |-> 0, total_steps |-> 0,
     metadata |-> [source_url |-> None], temp_files |-> temp_files]

\* ------------------------------------------------------------ state
VARIABLES
    entry,           \* the function the caller called
    pipeline_text,   \* the argument of parse_and_execute
    commands,        \* the command list being executed
    pc,              \* where the call is
    i,               \* the loop index of PDFLExecutor.execute
    m,               \* ctx, file system, capability calls, log
    current_stream,  \* the local of PDFLExecutor.execute
    err,             \* the exception in flight
    outcome,         \* what the caller gets: a Stream, or an exception
    invoked          \* history: one record per command.execute call

vars == <<entry, pipeline_text, commands, pc, i, m, current_stream, err, outcome, invoked>>

NoOutcome == [kind |-> "none", stream |-> NoStream, error |-> NoError]

World(ctx) ==
    [ctx |-> ctx, fs_dirs |-> {"/work"},
     fs_files |-> {ctx.temp_files[k] : k \in 1..Len(ctx.temp_files)},
     archives |-> {}, calls |-> <<>>, streams |-> 0, made |-> 0, gtd |-> <<>>, log |-> <<>>]

Init ==
    /\ \E debug_mode \in BOOLEAN, temp_files \in {<<>>, <<ScratchFile>>} :
          m = World(PipelineContext(debug_mode, temp_files))
    /\ \/ /\ entry = ParseAndExecute
          /\ pipeline_text \in PipelineTexts
          /\ commands = <<>>
          /\ pc = "parse"
       \/ /\ entry = Execute
          /\ pipeline_text = <<>>
          /\ commands \in CommandLists
          /\ pc = "execute"
    /\ i = 0
    /\ current_stream = NoStream
    /\ err = NoError
    /\ outcome = NoOutcome
    /\ invoked = <<>>

\* ------------------------------------------------------------ actions
\* parse_and_execute, line 608: commands = parser.parse(pipeline_text)
parse_and_execute_parse ==
    /\ pc = "parse"
    /\ LET r == parse(pipeline_text)
       IN IF r.error # NoError
          THEN /\ err' = r.error
               /\ pc' = "pae_except"
               /\ UNCHANGED commands
          ELSE /\ commands' = r.commands
               /\ pc' = "execute"
               /\ UNCHANGED err
    /\ UNCHANGED <<entry, pipeline_text, i, m, current_stream, outcome, invoked>>

\* PDFLExecutor.execute, lines 569-570
execute_begin ==
    /\ pc = "execute"
    /\ m' = [m EXCEPT !.ctx.total_steps = Len(commands)]
    /\ current_stream' = NoStream
    /\ i' = 0
    /\ pc' = "loop"
    /\ UNCHANGED <<entry, pipeline_text, commands, err, outcome, invoked>>

\* PDFLExecutor.execute, lines 573-578 and 587: the next command, or the
\* return after the last one
execute_loop ==
    /\ pc = "loop"
    /\ IF i < Len(commands)
       THEN /\ m' = Log([m EXCEPT !.ctx.current_step = i + 1],
                        "execute command", commands[i + 1].name, "INFO")
            /\ pc' = "call"
       ELSE /\ pc' = "finally"
            /\ UNCHANGED m
    /\ UNCHANGED <<entry, pipeline_text, commands, i, current_stream, err, outcome, invoked>>

\* the loop body going on to the next command after a command raised
Invoke_continue(o) ==
    /\ m' = IF o.error = NoError THEN Log(o.m, "result", o.stream.state, "INFO") ELSE o.m
    /\ invoked' = Append(invoked, [index |-> i, cls |-> commands[i + 1].cls,
                                   step |-> m.ctx.current_step,
                                   input |-> current_stream, output |-> o.stream,
                                   error |-> o.error])
    /\ IF o.error = NoError
       THEN /\ current_stream' = o.stream
            /\ UNCHANGED err
       ELSE /\ err' = o.error
            /\ UNCHANGED current_stream
    /\ i' = i + 1
    /\ pc' = "loop"
    /\ UNCHANGED <<entry, pipeline_text, commands, outcome>>

\* the loop body not assigning the result to current_stream
Invoke_no_thread(o) ==
    /\ m' = IF o.error = NoError THEN Log(o.m, "result", o.stream.state, "INFO") ELSE o.m
    /\ invoked' = Append(invoked, [index |-> i, cls |-> commands[i + 1].cls,
                                   step |-> m.ctx.current_step,
                                   input |-> current_stream, output |-> o.stream,
                                   error |-> o.error])
    /\ IF o.error = NoError
       THEN /\ i' = i + 1
            /\ pc' = "loop"
            /\ UNCHANGED err
       ELSE /\ err' = o.error
            /\ pc' = "except"
            /\ UNCHANGED i
    /\ UNCHANGED <<entry, pipeline_text, commands, outcome, current_stream>>

\* PDFLExecutor.execute, lines 580-585: current_stream = command.execute(...)
Invoke(o) ==
    /\ m' = IF o.error = NoError THEN Log(o.m, "result", o.stream.state, "INFO") ELSE o.m
    /\ invoked' = Append(invoked, [index |-> i, cls |-> commands[i + 1].cls,
                                   step |-> m.ctx.current_step,
                                   input |-> current_stream, output |-> o.stream,
                                   error |-> o.error])
    /\ IF o.error = NoError
       THEN /\ current_stream' = o.stream
            /\ i' = i + 1
            /\ pc' = "loop"
            /\ UNCHANGED err
       ELSE /\ err' = o.error
            /\ pc' = "except"
            /\ UNCHANGED <<current_stream, i>>
    /\ UNCHANGED <<entry, pipeline_text, commands, outcome>>

Calling(cls) == pc = "call" /\ commands[i + 1].cls = cls

LoadCommand_step ==
    /\ Calling("LoadCommand")
    /\ \E o \in LoadCommand_execute(commands[i + 1].params, current_stream, m) : Invoke(o)

SelectCommand_step ==
    /\ Calling("SelectCommand")
    /\ \E o \in SelectCommand_execute(commands[i + 1].params, current_stream, m) : Invoke(o)

ConcatCommand_step ==
    /\ Calling("ConcatCommand")
    /\ \E o \in ConcatCommand_execute(commands[i + 1].params, current_stream, m) : Invoke(o)

PNGCommand_step ==
    /\ Calling("PNGCommand")
    /\ \E o \in PNGCommand_execute(commands[i + 1].params, current_stream, m) : Invoke(o)

SaveCommand_step ==
    /\ Calling("SaveCommand")
    /\ \E o \in SaveCommand_execute(commands[i + 1].params, current_stream, m) : Invoke(o)

RotateCommand_step ==
    /\ Calling("RotateCommand")
    /\ \E o \in RotateCommand_execute(commands[i + 1].params, current_stream, m) : Invoke(o)

\* PDFLExecutor.execute, lines 589-591: log and re-raise
execute_except ==
    /\ pc = "except"
    /\ m' = Log(m, "execution failed", err.msg, "ERROR")
    /\ pc' = "finally"
    /\ UNCHANGED <<entry, pipeline_text, commands, i, current_stream, err, outcome, invoked>>

\* PDFLExecutor.execute, lines 592-594: cleanup, then the return or the raise
execute_finally ==
    /\ pc = "finally"
    /\ m' = cleanup(m)
    /\ IF err = NoError
       THEN /\ outcome' = [kind |-> "return", stream |-> current_stream, error |-> NoError]
            /\ pc' = "done"
       ELSE IF entry = ParseAndExecute
       THEN /\ pc' = "pae_except"
            /\ UNCHANGED outcome
       ELSE /\ outcome' = [kind |-> "raise", stream |-> NoStream, error |-> err]
            /\ pc' = "done"
    /\ UNCHANGED <<entry, pipeline_text, commands, i, current_stream, err, invoked>>

\* parse_and_execute, lines 611-613: log and re-raise
parse_and_execute_except ==
    /\ pc = "pae_except"
    /\ m' = Log(m, "pipeline failed", err.msg, "ERROR")
    /\ outcome' = [kind |-> "raise", stream |-> NoStream, error |-> err]
    /\ pc' = "done"
    /\ UNCHANGED <<entry, pipeline_text, commands, i, current_stream, err, invoked>>

Next ==
    \/ parse_and_execute_parse
    \/ execute_begin
    \/ execute_loop
    \/ LoadCommand_step
    \/ SelectCommand_step
    \/ ConcatCommand_step
    \/ PNGCommand_step
    \/ SaveCommand_step
    \/ RotateCommand_step
    \/ execute_except
    \/ execute_finally
    \/ parse_and_execute_except

Spec == Init /\ [][Next]_vars

TypeOK ==
    /\ pc \in {"parse", "execute", "loop", "call", "except", "finally", "pae_except", "done"}
    /\ i \in 0..Len(commands)

\* ------------------------------------------------------------ properties
\* PDFLExecutor.execute was entered
ExecuteCalled == entry = Execute \/ commands # <<>>
\* PDFLExecutor.execute has returned or raised
ExecuteLeft == pc \in {"pae_except", "done"}

\* C1: when PDFLExecutor.execute has returned a Stream or raised, cleanup
\* has run: no directory handed out by get_temp_dir exists any more, nothing
\* is left under it, and no path of temp_files exists.
C1_TeardownOnEveryExit ==
    (ExecuteCalled /\ ExecuteLeft) =>
        /\ \A k \in 1..Len(m.gtd) :
              /\ m.gtd[k].path \notin m.fs_dirs
              /\ \A f \in m.fs_files : f.dir # m.gtd[k].path
        /\ \A k \in 1..Len(m.ctx.temp_files) : m.ctx.temp_files[k] \notin m.fs_files

\* a run of five stages that raised at the third, after a Save had asked for
\* the temp directory, with a tracked temp file
C1_Witness ==
    /\ pc = "done"
    /\ outcome.kind = "raise"
    /\ Len(commands) = 5
    /\ Len(invoked) = 3
    /\ invoked[3].error # NoError
    /\ m.gtd # <<>>
    /\ m.ctx.temp_files # <<>>

\* C2: Concat on a Single stream and Select on a Multi stream raise the state
\* error and leave the context, the file system, the log and the list of
\* Document-capability calls as they were.
C2_StateMismatchBeforeBody ==
    [][(/\ pc = "call"
        /\ \/ commands[i + 1].cls = "ConcatCommand" /\ current_stream.state = SINGLE
           \/ commands[i + 1].cls = "SelectCommand" /\ current_stream.state = MULTI)
       => (/\ pc' = "except"
           /\ err' = IF commands[i + 1].cls = "ConcatCommand"
                     THEN ValueError("Concat applies to MultiStream only", "Concat")
                     ELSE ValueError("Select applies to SingleStream only", "Select")
           /\ m' = m)]_vars

\* Concat has raised the state error on a Single stream after earlier stages
\* had used the Document capability
C2_Witness ==
    /\ pc = "except"
    /\ err = ValueError("Concat applies to MultiStream only", "Concat")
    /\ current_stream.state = SINGLE
    /\ m.calls # <<>>

TableNames == {"Load", "Select", "Concat", "PNG", "Save"}

\* the table of section 4.4: the state a stage emits for the state it gets
\* (None for a state it does not accept)
TableEmits(name, state) ==
    CASE name = "Load" -> IF state = None THEN SINGLE ELSE "rejected"
      [] name = "Select" -> IF state = SINGLE THEN MULTI ELSE "rejected"
      [] name = "Concat" -> IF state = MULTI THEN SINGLE ELSE "rejected"
      [] name \in {"PNG", "Save"} -> IF state \in {SINGLE, MULTI} THEN state ELSE "rejected"
      [] OTHER -> "rejected"

RECURSIVE TableStateAfter(_, _)
\* the state after the first n stages, from the stage names alone
TableStateAfter(names, n) ==
    IF n = 0 THEN None ELSE TableEmits(names[n], TableStateAfter(names, n - 1))

\* C3: in a pipeline over Load, Select, Concat, PNG and Save, every stage
\* that returned got a state the table lets it accept and returned a Stream
\* in the state the table gives, which is the state computed from the stage
\* names alone.
C3_TypeStateTable ==
    (\A k \in 1..Len(commands) : commands[k].name \in TableNames) =>
        \A j \in 1..Len(invoked) :
            invoked[j].error = NoError =>
                /\ invoked[j].output.state = TableEmits(commands[j].name, invoked[j].input.state)
                /\ invoked[j].output.state = TableStateAfter([k \in 1..Len(commands) |-> commands[k].name], j)
                /\ invoked[j].output.state \in {SINGLE, MULTI}

\* Load | Select | PNG | Concat | Save has returned
C3_Witness ==
    /\ pc = "done"
    /\ outcome.kind = "return"
    /\ [k \in 1..Len(commands) |-> commands[k].name] = <<"Load", "Select", "PNG", "Concat", "Save">>
    /\ outcome.stream.state = SINGLE

\* every stage string of the text is one _parse_command accepts
AllStagesParse(text) ==
    \A k \in 1..Len(text) :
        /\ text[k].name \in {"Load", "Select", "Concat", "PNG", "Save", "Rotate"}
        /\ \A s \in 1..Len(text[k].segs) : text[k].segs[s].colon

\* Load is the one Generator
GeneratorName(name) == name = "Load"

\* C4: a stage list whose first stage is no Generator is rejected by the
\* validation with the first-command-must-be-a-generator error, whatever the
\* other stages are, and nothing is executed.
C4_FirstMustBeGenerator ==
    (/\ entry = ParseAndExecute
     /\ pc # "parse"
     /\ pipeline_text # <<>>
     /\ AllStagesParse(pipeline_text)
     /\ ~GeneratorName(pipeline_text[1].name))
    => /\ err = ValueError("first command must be a generator", pipeline_text[1].name)
       /\ commands = <<>>
       /\ invoked = <<>>

\* a three-stage list with a non-Generator first and a Generator later has
\* been rejected
C4_Witness ==
    /\ pc = "done"
    /\ Len(pipeline_text) = 3
    /\ AllStagesParse(pipeline_text)
    /\ ~GeneratorName(pipeline_text[1].name)
    /\ GeneratorName(pipeline_text[3].name)
    /\ outcome.error.msg = "first command must be a generator"

\* C5: a stage list with a Generator at an index above 0 is rejected, and a
\* list returned by PDFLParser.parse has a Generator at index 0 and nowhere
\* else.
C5_OneGeneratorAtIndexZero ==
    /\ (entry = ParseAndExecute /\ commands # <<>>) =>
           /\ BaseClass[commands[1].cls] = "Generator"
           /\ \A k \in 2..Len(commands) : BaseClass[commands[k].cls] # "Generator"
    /\ (/\ entry = ParseAndExecute
        /\ pc # "parse"
        /\ AllStagesParse(pipeline_text)
        /\ \E k \in 2..Len(pipeline_text) : GeneratorName(pipeline_text[k].name))
       => /\ commands = <<>>
          /\ err.msg \in {"first command must be a generator", "generator only as the first command"}

\* Load | ... | Load has been rejected for its second Generator
C5_Witness ==
    /\ pc = "done"
    /\ Len(pipeline_text) = 3
    /\ GeneratorName(pipeline_text[1].name)
    /\ GeneratorName(pipeline_text[3].name)
    /\ outcome.error = ValueError("generator only as the first command", "Load")

\* the text has a stage string that is malformed, a parameter without ':',
\* an unknown stage name, no Generator in front, or a Generator further on
TextIsRejected(text) ==
    \/ text = <<>>
    \/ ~AllStagesParse(text)
    \/ ~GeneratorName(text[1].name)
    \/ \E k \in 2..Len(text) : GeneratorName(text[k].name)

\* C6: when the text fails to parse or to validate, parse_and_execute raises
\* and no command was executed, no Document-capability call was made, no
\* temp directory and no output file was created.
C6_NoExecutionOnParseFailure ==
    (entry = ParseAndExecute /\ pc # "parse" /\ TextIsRejected(pipeline_text)) =>
        /\ pc \in {"pae_except", "done"}
        /\ err # NoError
        /\ invoked = <<>>
        /\ m.calls = <<>>
        /\ m.gtd = <<>> /\ m.made = 0 /\ m.ctx.temp_dir = None
        /\ m.fs_dirs = {"/work"}
        /\ m.archives = {}
        /\ m.fs_files = {m.ctx.temp_files[k] : k \in 1..Len(m.ctx.temp_files)}
        /\ (pc = "done" => outcome.kind = "raise" /\ outcome.error = err)

\* a text whose first two stages could run and whose third has an unknown
\* name has been rejected
C6_Witness ==
    /\ pc = "done"
    /\ outcome.kind = "raise"
    /\ Len(pipeline_text) = 3
    /\ pipeline_text[1] = T_Load
    /\ pipeline_text[2] = T_Save
    /\ pipeline_text[3] = T_Unknown
    /\ outcome.error = ValueError("unknown command", "Merge")

\* C7: once a stage has raised, no later stage is invoked and its error is
\* the one the caller of execute gets.
C7_AbortOnError ==
    \A j \in 1..Len(invoked) :
        invoked[j].error # NoError =>
            /\ j = Len(invoked)
            /\ err = invoked[j].error
            /\ pc \in {"except", "finally", "pae_except", "done"}
            /\ (pc = "done" => outcome.kind = "raise" /\ outcome.error = invoked[j].error)

\* the second of four stages raised, from its body, and the caller has the
\* error
C7_Witness ==
    /\ pc = "done"
    /\ Len(commands) = 4
    /\ Len(invoked) = 2
    /\ invoked[2].error = CapabilityFailure("split_pages")
    /\ outcome.kind = "raise"

\* C8: the stages are invoked in list order, stage 0 with no stream, stage
\* j with the Stream stage j-1 returned, with step index j+1; execute
\* returns the Stream of the last stage.
C8_SequentialThreading ==
    /\ \A j \in 1..Len(invoked) :
          /\ invoked[j].index = j - 1
          /\ invoked[j].cls = commands[j].cls
          /\ invoked[j].step = j
          /\ invoked[j].input = IF j = 1 THEN NoStream ELSE invoked[j - 1].output
          /\ j > 1 => invoked[j - 1].error = NoError
    /\ outcome.kind = "return" =>
          /\ Len(invoked) = Len(commands)
          /\ outcome.stream = IF commands = <<>> THEN NoStream
                              ELSE invoked[Len(commands)].output

\* five stages have returned, each having produced a Stream object of its
\* own
C8_Witness ==
    /\ pc = "done"
    /\ outcome.kind = "return"
    /\ Len(invoked) = 5
    /\ \A j \in 1..4 : invoked[j].output.id # invoked[j + 1].output.id
    /\ outcome.stream = invoked[5].output

\* C9: a Consumer stage (Save) that returns, returns the Stream object it
\* received, state and content unchanged.
C9_ConsumerPassThrough ==
    \A j \in 1..Len(invoked) :
        (BaseClass[invoked[j].cls] = "Consumer" /\ invoked[j].error = NoError) =>
            /\ invoked[j].output.id = invoked[j].input.id
            /\ invoked[j].output.state = invoked[j].input.state
            /\ invoked[j].output.content = invoked[j].input.content

\* Save has returned once for a Single and once for a Multi stream
C9_Witness ==
    /\ \E j \in 1..Len(invoked) :
          invoked[j].cls = "SaveCommand" /\ invoked[j].error = NoError
          /\ invoked[j].input.state = SINGLE
    /\ \E j \in 1..Len(invoked) :
          invoked[j].cls = "SaveCommand" /\ invoked[j].error = NoError
          /\ invoked[j].input.state = MULTI

\* C10: while the run has not been torn down, no temp directory exists
\* before the first get_temp_dir call, that call makes the one directory of
\* the run, and every call returns that same path, which exists on return.
C10_LazyStableTempDir ==
    /\ m.gtd = <<>> =>
          /\ m.ctx.temp_dir = None
          /\ m.made = 0
          /\ \A k \in 1..Len(TempNames) : TempNames[k] \notin m.fs_dirs
    /\ m.gtd # <<>> =>
          /\ m.made = 1
          /\ m.ctx.temp_dir = m.gtd[1].path
          /\ \A k \in 1..Len(m.gtd) : m.gtd[k].path = m.gtd[1].path /\ m.gtd[k].exists
          /\ (pc \in {"loop", "call", "except"} => m.gtd[1].path \in m.fs_dirs)

\* get_temp_dir has been called three times in one run
C10_Witness ==
    /\ Len(m.gtd) = 3
    /\ pc = "loop"

\* ------------------------------------------------------------ two runs
\* Two calls of parse_and_execute in one process, each with the context
\* parse_and_execute constructs for it, their steps interleaved.  The
\* variables hold one value per run; the file system and the archives under
\* output_dir are the ones of the process, shared by both runs.
Runs == {1, 2}

\* Save{name:"b"}
T_SaveB == StageText("Save", <<Seg("name", Quoted(Str("b")))>>)

\* the pipeline texts of the two runs
TwoTexts ==
    {<<T_Load, T_Save>>, <<T_Load, T_SaveB>>, <<T_Load, T_SelectEach, T_Save>>,
     <<T_Load, T_Save, T_Concat>>, <<T_Load, T_PNG, T_Save>>, <<T_Unknown>>}

\* what run r sees: its own context and histories, the shared file system
View(r) ==
    [ctx |-> m.ctx[r], fs_dirs |-> m.fs_dirs, fs_files |-> m.fs_files,
     archives |-> m.archives, calls |-> m.calls[r], streams |-> m.streams[r],
     made |-> m.made[r], gtd |-> m.gtd[r], log |-> m.log[r]]

\* the world after run r has turned its view into w
Merge(r, w) ==
    [ctx |-> [m.ctx EXCEPT ![r] = w.ctx], fs_dirs |-> w.fs_dirs, fs_files |-> w.fs_files,
     archives |-> w.archives, calls |-> [m.calls EXCEPT ![r] = w.calls],
     streams |-> [m.streams EXCEPT ![r] = w.streams],
     made |-> [m.made EXCEPT ![r] = w.made], gtd |-> [m.gtd EXCEPT ![r] = w.gtd],
     log |-> [m.log EXCEPT ![r] = w.log]]

\* command.execute(current_stream, ctx): the execute of the command's class
command_execute(cmd, input_stream, w) ==
    CASE cmd.cls = "LoadCommand" -> LoadCommand_execute(cmd.params, input_stream, w)
      [] cmd.cls = "SelectCommand" -> SelectCommand_execute(cmd.params, input_stream, w)
      [] cmd.cls = "ConcatCommand" -> ConcatCommand_execute(cmd.params, input_stream, w)
      [] cmd.cls = "PNGCommand" -> PNGCommand_execute(cmd.params, input_stream, w)
      [] cmd.cls = "SaveCommand" -> SaveCommand_execute(cmd.params, input_stream, w)
      [] OTHER -> RotateCommand_execute(cmd.params, input_stream, w)

TwoInit ==
    /\ entry = [r \in Runs |-> ParseAndExecute]
    /\ pipeline_text \in [Runs -> TwoTexts]
    /\ commands = [r \in Runs |-> <<>>]
    /\ pc = [r \in Runs |-> "parse"]
    /\ i = [r \in Runs |-> 0]
    /\ m = [ctx |-> [r \in Runs |-> PipelineContext(FALSE, <<>>)],
            fs_dirs |-> {"/work"}, fs_files |-> {}, archives |-> {},
            calls |-> [r \in Runs |-> <<>>], streams |-> [r \in Runs |-> 0],
            made |-> [r \in Runs |-> 0], gtd |-> [r \in Runs |-> <<>>],
            log |-> [r \in Runs |-> <<>>]]
    /\ current_stream = [r \in Runs |-> NoStream]
    /\ err = [r \in Runs |-> NoError]
    /\ outcome = [r \in Runs |-> NoOutcome]
    /\ invoked = [r \in Runs |-> <<>>]

\* parse_and_execute, line 608, in run r
run_parse(r) ==
    /\ pc[r] = "parse"
    /\ LET p == parse(pipeline_text[r])
       IN IF p.error # NoError
          THEN /\ err' = [err EXCEPT ![r] = p.error]
               /\ pc' = [pc EXCEPT ![r] = "pae_except"]
               /\ UNCHANGED commands
          ELSE /\ commands' = [commands EXCEPT ![r] = p.commands]
               /\ pc' = [pc EXCEPT ![r] = "execute"]
               /\ UNCHANGED err
    /\ UNCHANGED <<entry, pipeline_text, i, m, current_stream, outcome, invoked>>

\* PDFLExecutor.execute, lines 569-570, in run r
run_begin(r) ==
    /\ pc[r] = "execute"
    /\ m' = [m EXCEPT !.ctx[r].total_steps = Len(commands[r])]
    /\ current_stream' = [current_stream EXCEPT ![r] = NoStream]
    /\ i' = [i EXCEPT ![r] = 0]
    /\ pc' = [pc EXCEPT ![r] = "loop"]
    /\ UNCHANGED <<entry, pipeline_text, commands, err, outcome, invoked>>

\* PDFLExecutor.execute, lines 573-578 and 587, in run r
run_loop(r) ==
    /\ pc[r] = "loop"
    /\ IF i[r] < Len(commands[r])
       THEN /\ m' = Merge(r, Log([View(r) EXCEPT !.ctx.current_step = i[r] + 1],
                                 "execute command", commands[r][i[r] + 1].name, "INFO"))
            /\ pc' = [pc EXCEPT ![r] = "call"]
       ELSE /\ pc' = [pc EXCEPT ![r] = "finally"]
            /\ UNCHANGED m
    /\ UNCHANGED <<entry, pipeline_text, commands, i, current_stream, err, outcome, invoked>>

\* PDFLExecutor.execute, lines 580-585, in run r
run_call(r) ==
    /\ pc[r] = "call"
    /\ \E o \in command_execute(commands[r][i[r] + 1], current_stream[r], View(r)) :
          /\ m' = Merge(r, IF o.error = NoError
                           THEN Log(o.m, "result", o.stream.state, "INFO") ELSE o.m)
          /\ invoked' = [invoked EXCEPT ![r] =
                            Append(@, [index |-> i[r], cls |-> commands[r][i[r] + 1].cls,
                                       step |-> m.ctx[r].current_step,
                                       input |-> current_stream[r], output |-> o.stream,
                                       error |-> o.error])]
          /\ IF o.error = NoError
             THEN /\ current_stream' = [current_stream EXCEPT ![r] = o.stream]
                  /\ i' = [i EXCEPT ![r] = @ + 1]
                  /\ pc' = [pc EXCEPT ![r] = "loop"]
                  /\ UNCHANGED err
             ELSE /\ err' = [err EXCEPT ![r] = o.error]
                  /\ pc' = [pc EXCEPT ![r] = "except"]
                  /\ UNCHANGED <<current_stream, i>>
    /\ UNCHANGED <<entry, pipeline_text, commands, outcome>>

\* PDFLExecutor.execute, lines 589-591, in run r
run_except(r) ==
    /\ pc[r] = "except"
    /\ m' = Merge(r, Log(View(r), "execution failed", err[r].msg, "ERROR"))
    /\ pc' = [pc EXCEPT ![r] = "finally"]
    /\ UNCHANGED <<entry, pipeline_text, commands, i, current_stream, err, outcome, invoked>>

\* PDFLExecutor.execute, lines 592-594, in run r
run_finally(r) ==
    /\ pc[r] = "finally"
    /\ m' = Merge(r, cleanup(View(r)))
    /\ IF err[r] = NoError
       THEN /\ outcome' = [outcome EXCEPT ![r] = [kind |-> "return", stream |-> current_stream[r],
                                                  error |-> NoError]]
            /\ pc' = [pc EXCEPT ![r] = "done"]
       ELSE /\ pc' = [pc EXCEPT ![r] = "pae_except"]
            /\ UNCHANGED outcome
    /\ UNCHANGED <<entry, pipeline_text, commands, i, current_stream, err, invoked>>

\* parse_and_execute, lines 611-613, in run r
run_pae_except(r) ==
    /\ pc[r] = "pae_except"
    /\ m' = Merge(r, Log(View(r), "pipeline failed", err[r].msg, "ERROR"))
    /\ outcome' = [outcome EXCEPT ![r] = [kind |-> "raise", stream |-> NoStream, error |-> err[r]]]
    /\ pc' = [pc EXCEPT ![r] = "done"]
    /\ UNCHANGED <<entry, pipeline_text, commands, i, current_stream, err, invoked>>

TwoNext ==
    \E r \in Runs :
        \/ run_parse(r)
        \/ run_begin(r)
        \/ run_loop(r)
        \/ run_call(r)
        \/ run_except(r)
        \/ run_finally(r)
        \/ run_pae_except(r)

SpecTwo == TwoInit /\ [][TwoNext]_vars

\* run r is inside PDFLExecutor.execute, before the end of its cleanup
Executing(r) == pc[r] \in {"loop", "call", "except", "finally"}

\* the files under a directory
FilesUnder(dir) == {f \in m.fs_files : f.dir = dir}

\* C11: two runs that are both executing never hold the same temp directory
\* path, and the cleanup of one run leaves the temp directory of the other
\* executing run, and every file under it, as it was.
C11_DisjointTempDirs ==
    /\ [](\A r, s \in Runs :
            (r # s /\ Executing(r) /\ Executing(s) /\ m.ctx[r].temp_dir # None)
                => m.ctx[r].temp_dir # m.ctx[s].temp_dir)
    /\ [][\A r, s \in Runs :
            (r # s /\ pc[r] = "finally" /\ pc'[r] # "finally"
             /\ Executing(s) /\ m.ctx[s].temp_dir # None)
                => /\ (m.ctx[s].temp_dir \in m.fs_dirs) = (m.ctx[s].temp_dir \in m'.fs_dirs)
                   /\ {f \in m'.fs_files : f.dir = m.ctx[s].temp_dir} = FilesUnder(m.ctx[s].temp_dir)]_vars

\* run 1 has finished and removed its temp directory while run 2, whose temp
\* directory was made while that of run 1 existed, still has its files
C11_Witness ==
    /\ pc[1] = "done"
    /\ m.gtd[1] # <<>>
    /\ m.ctx[1].temp_dir \notin m.fs_dirs
    /\ Executing(2)
    /\ m.ctx[2].temp_dir # None
    /\ m.ctx[2].temp_dir # m.ctx[1].temp_dir
    /\ m.ctx[2].temp_dir \in m.fs_dirs
    /\ FilesUnder(m.ctx[2].temp_dir) # {}

\* the archive names run r has written with Save
SavedNames(r) ==
    {IF HasParam(commands[r][invoked[r][k].index + 1].params, "name")
     THEN commands[r][invoked[r][k].index + 1].params.name.s ELSE "output"
     : k \in {j \in 1..Len(invoked[r]) :
                 invoked[r][j].cls = "SaveCommand" /\ invoked[r][j].error = NoError}}

\* C12: no step of one run changes anything of the other run: the other
\* run's context, the files under its temp directory and the archives it has
\* written with Save stay as they were.
C12_NoSharedMutableState ==
    [][\A r, s \in Runs :
          (r # s /\ pc'[r] # pc[r])
              => /\ m'.ctx[s] = m.ctx[s]
                 /\ (Executing(s) /\ m.ctx[s].temp_dir # None)
                       => {f \in m'.fs_files : f.dir = m.ctx[s].temp_dir}
                          = FilesUnder(m.ctx[s].temp_dir)
                 /\ \A a \in m.archives : a.zip \in SavedNames(s) => a \in m'.archives]_vars

\* ------------------------------------------------------------ one call
\* One call of one function: pipeline_text holds the arguments, outcome the
\* value returned or the exception raised; the other variables stay as they
\* start.
CallInit(fn, Args) ==
    /\ entry = fn
    /\ pipeline_text \in Args
    /\ pc = "call"
    /\ commands = <<>>
    /\ i = 0
    /\ m = None
    /\ current_stream = NoStream
    /\ err = NoError
    /\ outcome = NoOutcome
    /\ invoked = <<>>

CallReturn(fn, result) ==
    /\ entry = fn
    /\ pc = "call"
    /\ outcome' = result
    /\ pc' = "return"
    /\ UNCHANGED <<entry, pipeline_text, commands, i, m, current_stream, err, invoked>>

Returned(fn) == entry = fn /\ pc = "return"

\* ------------------------------------------------------------ page sets
\* the largest page number written in a page-set string
MaxPartNum == 4
\* the largest number of parts of a page-set string
MaxParts == 2
\* the largest page count of the document a page set or a condition is about
MaxTotal == 5

\* the parts re.split(r'[,\s]+') gives: numbers from 0, ranges, $total, and
\* a part int() rejects
Parts ==
    {Num(n) : n \in 0..MaxPartNum}
    \cup {Range(a, b) : a, b \in 1..MaxPartNum}
    \cup {Total, BadPart}

\* "1,3,5", "1..3,5..7" and "1,$total" over 10 pages
PagesExamples ==
    {[parts |-> <<Num(1), Num(3), Num(5)>>, total_pages |-> 5],
     [parts |-> <<Range(1, 3), Range(5, 7)>>, total_pages |-> 7],
     [parts |-> <<Num(1), Total>>, total_pages |-> 10]}

PagesArgs ==
    {[parts |-> ps, total_pages |-> n] : ps \in SeqsUpTo(Parts, MaxParts), n \in 1..MaxTotal}
    \cup PagesExamples

PagesInit == CallInit("_parse_pages_string", PagesArgs)

\* SelectCommand._parse_pages_string(pages_str, total_pages)
parse_pages_call ==
    CallReturn("_parse_pages_string",
               IF parse_pages_raises(pipeline_text.parts)
               THEN [raised |-> TRUE, pages |-> <<>>]
               ELSE [raised |-> FALSE,
                     pages |-> _parse_pages_string(pipeline_text.parts, pipeline_text.total_pages)])

PagesNext == parse_pages_call

SpecPages == PagesInit /\ [][PagesNext]_vars

\* the 1-based page numbers a page-set string refers to
ReferencedPages(parts, total_pages) ==
    UNION {IF parts[k].k = "range" THEN parts[k].a..parts[k].b
           ELSE IF parts[k].k = "total" THEN {total_pages}
           ELSE {parts[k].a} : k \in 1..Len(parts)}

\* every part is a positive integer, a range or $total
PositiveParts(parts) ==
    \A k \in 1..Len(parts) : parts[k].k \in {"range", "total"} \/ (parts[k].k = "num" /\ parts[k].a >= 1)

\* C13: for a page-set string of positive integers, ranges a..b and $total,
\* _parse_pages_string returns, without raising, the 0-based indices of the
\* referenced 1-based pages, each once, in strictly ascending order; "1,3,5"
\* gives [0,2,4], "1..3,5..7" gives [0,1,2,4,5,6], "1,$total" with 10 pages
\* gives [0,9].
C13_PageSetEvaluation ==
    (Returned("_parse_pages_string") /\ PositiveParts(pipeline_text.parts)) =>
        /\ ~outcome.raised
        /\ \A k \in 1..(Len(outcome.pages) - 1) : outcome.pages[k] < outcome.pages[k + 1]
        /\ {outcome.pages[k] : k \in 1..Len(outcome.pages)}
           = {p - 1 : p \in ReferencedPages(pipeline_text.parts, pipeline_text.total_pages)}
        /\ pipeline_text = [parts |-> <<Num(1), Num(3), Num(5)>>, total_pages |-> 5]
              => outcome.pages = <<0, 2, 4>>
        /\ pipeline_text = [parts |-> <<Range(1, 3), Range(5, 7)>>, total_pages |-> 7]
              => outcome.pages = <<0, 1, 2, 4, 5, 6>>
        /\ pipeline_text = [parts |-> <<Num(1), Total>>, total_pages |-> 10]
              => outcome.pages = <<0, 9>>

\* "2..4,$total" over 3 pages: page 3 is referenced twice and comes out once
C13_Witness ==
    /\ Returned("_parse_pages_string")
    /\ pipeline_text = [parts |-> <<Range(2, 4), Total>>, total_pages |-> 3]
    /\ outcome.pages = <<1, 2, 3>>

\* ------------------------------------------------------------ parser on text
\* the values _parse_value returns: str, bool, int, and float as num / den
StrValue(s) == [t |-> "str", text |-> s]
BoolValue(b) == [t |-> "bool", b |-> b]
IntValue(n) == [t |-> "int", n |-> n]
FloatValue(num, den) == [t |-> "float", num |-> num, den |-> den]

\* re.match(r'^-?\d+(\.\d+)?$', value_str)
IsNumberText(s) ==
    LET body == IF s # <<>> /\ s[1] = "-" THEN Tail(s) ELSE s
        dot == find(body, ".")
    IN IF dot = 0
       THEN body # <<>> /\ \A k \in 1..Len(body) : body[k] \in Digits
       ELSE /\ dot > 1
            /\ dot < Len(body)
            /\ \A k \in 1..Len(body) : k # dot => body[k] \in Digits

\* int(value_str) and float(value_str) of a text IsNumberText accepts
NumberOf(s) ==
    LET neg == s[1] = "-"
        body == IF neg THEN Tail(s) ELSE s
        sign == IF neg THEN 0 - 1 ELSE 1
        dot == find(body, ".")
    IN IF dot = 0
       THEN IntValue(sign * IntOf(body))
       ELSE FloatValue(sign * IntOf(SubSeq(body, 1, dot - 1) \o SubSeq(body, dot + 1, Len(body))),
                       Pow(10, Len(body) - dot))

\* the quote test of _parse_value
IsQuotedText(s) ==
    s # <<>> /\ ((s[1] = "\"" /\ s[Len(s)] = "\"") \/ (s[1] = "'" /\ s[Len(s)] = "'"))

\* PDFLParser._parse_value on the characters of value_str
parse_value_text(value_str) ==
    LET s == strip(value_str)
    IN IF IsQuotedText(s) THEN StrValue(SubSeq(s, 2, Len(s) - 1))
       ELSE IF lower(s) = <<"t", "r", "u", "e">> THEN BoolValue(TRUE)
       ELSE IF lower(s) = <<"f", "a", "l", "s", "e">> THEN BoolValue(FALSE)
       ELSE IF IsNumberText(s) THEN NumberOf(s)
       ELSE StrValue(s)

NoTextParams == [key \in {} |-> StrValue(<<>>)]

RECURSIVE parse_pairs(_, _)
\* the loop of _parse_parameters over param_pairs: [error, params]
parse_pairs(param_pairs, params) ==
    IF param_pairs = <<>> THEN [error |-> NoError, params |-> params]
    ELSE LET pair == Head(param_pairs)
             colon == find(pair, ":")
             key == strip(SubSeq(pair, 1, colon - 1))
             value == strip(SubSeq(pair, colon + 1, Len(pair)))
         IN IF colon = 0
            THEN [error |-> ValueError("invalid parameter format", pair), params |-> NoTextParams]
            ELSE parse_pairs(Tail(param_pairs),
                             [k \in DOMAIN params \cup {key} |->
                                 IF k = key THEN parse_value_text(value) ELSE params[k]])

\* PDFLParser._parse_parameters on the characters of params_str
parse_parameters_text(params_str) ==
    IF params_str = <<>> THEN [error |-> NoError, params |-> NoTextParams]
    ELSE LET pieces == split(params_str, ",")
         IN parse_pairs([k \in 1..Len(pieces) |-> strip(pieces[k])], NoTextParams)

\* the registered names as text
NameText ==
    [Load |-> <<"L", "o", "a", "d">>, Select |-> <<"S", "e", "l", "e", "c", "t">>,
     Concat |-> <<"C", "o", "n", "c", "a", "t">>, PNG |-> <<"P", "N", "G">>,
     Save |-> <<"S", "a", "v", "e">>, Rotate |-> <<"R", "o", "t", "a", "t", "e">>]

RECURSIVE WordPrefixLen(_)
\* the number of characters (\w+) takes at the start of s
WordPrefixLen(s) == IF s # <<>> /\ Head(s) \in WordChars THEN 1 + WordPrefixLen(Tail(s)) ELSE 0

\* re.match(r'(\w+)(?:\{([^}]*)\})?', s): the match is at the start of s and
\* need not reach its end; the brace group takes part when a '}' follows
\* the '{'
match_command(s) ==
    LET n == WordPrefixLen(s)
        rest == SubSeq(s, n + 1, Len(s))
        close == find(rest, "}")
    IN [matched |-> n > 0,
        name |-> SubSeq(s, 1, n),
        has_params |-> rest # <<>> /\ Head(rest) = "{" /\ close # 0,
        params_str |-> IF rest # <<>> /\ Head(rest) = "{" /\ close # 0
                       THEN SubSeq(rest, 2, close - 1) ELSE <<>>]

TextCommand(name, cls, params) == [name |-> name, cls |-> cls, params |-> params]
NoTextCommand == TextCommand(<<>>, "", NoTextParams)

\* PDFLParser._parse_command on the characters of cmd_str: [error, command]
parse_command_text(cmd_str) ==
    LET mt == match_command(strip(cmd_str))
        known == {k \in DOMAIN registry : NameText[k] = mt.name}
        ps == parse_parameters_text(mt.params_str)
    IN IF ~mt.matched
       THEN [error |-> ValueError("invalid command format", cmd_str), command |-> NoTextCommand]
       ELSE IF known = {}
       THEN [error |-> ValueError("unknown command", mt.name), command |-> NoTextCommand]
       ELSE IF ps.error # NoError
       THEN [error |-> ps.error, command |-> NoTextCommand]
       ELSE [error |-> NoError,
             command |-> TextCommand(mt.name, registry[CHOOSE k \in known : TRUE], ps.params)]

\* PDFLParser.parse on the characters of pipeline_text: [error, commands]
parse_text(text) ==
    IF strip(text) = <<>>
    THEN [error |-> ValueError("pipeline must not be empty", ""), commands |-> <<>>]
    ELSE LET command_strings == split(strip(text), "|")
             parsed == [k \in 1..Len(command_strings) |->
                           parse_command_text(strip(command_strings[k]))]
             failed == {k \in 1..Len(parsed) : parsed[k].error # NoError}
         IN IF failed # {}
            THEN [error |-> parsed[CHOOSE k \in failed : \A j \in failed : k <= j].error,
                  commands |-> <<>>]
            ELSE LET cmds == [k \in 1..Len(parsed) |-> parsed[k].command]
                 IN [error |-> _validate_pipeline(cmds),
                     commands |-> IF _validate_pipeline(cmds) = NoError THEN cmds ELSE <<>>]

\* ------------------------------------------------------------ parser calls
\* the longest value_str drawn character by character
MaxValueLen == 3
\* the longest tail drawn after the identifier of a stage string
MaxTailLen == 4

ValueAlphabet == {"\"", "'", "t", "T", "1", "0", ".", "-", "x", " "}

\* true, TRUE, False, "true", "300", 300, 1.50, -1.5, -007, abc, 'x y', "a'
ValueExamples ==
    {<<"t", "r", "u", "e">>,
     <<"T", "R", "U", "E">>,
     <<"F", "a", "l", "s", "e">>,
     <<"\"", "t", "r", "u", "e", "\"">>,
     <<"\"", "3", "0", "0", "\"">>,
     <<"3", "0", "0">>,
     <<"1", ".", "5", "0">>,
     <<"-", "1", ".", "5">>,
     <<"-", "0", "0", "7">>,
     <<"a", "b", "c">>,
     <<"'", "x", " ", "y", "'">>,
     <<"\"", "a", "'">>}

ValueTexts == SeqsUpTo(ValueAlphabet, MaxValueLen) \cup ValueExamples

TailAlphabet == {"{", "}", "a", ":", ",", " "}

\* Load{url:"a.pdf"}, Load{url:"a.pdf", Load{url:"a.pdf"} now, Save{name:"out"
StageExamples ==
    {<<"L", "o", "a", "d", "{", "u", "r", "l", ":", "\"", "a", ".", "p", "d", "f", "\"", "}">>,
     <<"L", "o", "a", "d", "{", "u", "r", "l", ":", "\"", "a", ".", "p", "d", "f", "\"">>,
     <<"L", "o", "a", "d", "{", "u", "r", "l", ":", "\"", "a", ".", "p", "d", "f", "\"", "}", " ",
       "n", "o", "w">>,
     <<"S", "a", "v", "e", "{", "n", "a", "m", "e", ":", "\"", "o", "u", "t", "\"">>}

\* an identifier, registered or not, or none, followed by a tail
StageStrings ==
    {name \o tail : name \in {NameText.Load, NameText.PNG, <<"M", "e", "r", "g", "e">>, <<>>},
                    tail \in SeqsUpTo(TailAlphabet, MaxTailLen)}
    \cup StageExamples

\* backend.py, api_info syntax_examples, line 171
Doc_Each ==
    <<"L", "o", "a", "d", "{", "u", "r", "l", ":", "\"", "h", "t", "t", "p", "s", ":", "/",
      "/", "e", "x", "a", "m", "p", "l", "e", ".", "c", "o", "m", "/", "f", "i", "l", "e", ".",
      "p", "d", "f", "\"", "}", " ", "|", " ", "S", "e", "l", "e", "c", "t", "{", "m", "o",
      "d", "e", ":", "\"", "e", "a", "c", "h", "\"", "}", " ", "|", " ", "P", "N", "G", "{",
      "d", "p", "i", ":", "3", "0", "0", "}", " ", "|", " ", "S", "a", "v", "e", "{", "n", "a",
      "m", "e", ":", "\"", "o", "u", "t", "p", "u", "t", "\"", "}">>

\* backend.py, api_info syntax_examples, line 172
Doc_Where ==
    <<"L", "o", "a", "d", "{", "u", "r", "l", ":", "\"", "h", "t", "t", "p", "s", ":", "/",
      "/", "e", "x", "a", "m", "p", "l", "e", ".", "c", "o", "m", "/", "f", "i", "l", "e", ".",
      "p", "d", "f", "\"", "}", " ", "|", " ", "S", "e", "l", "e", "c", "t", "{", "w", "h",
      "e", "r", "e", ":", "\"", "$", "p", "a", "g", "e", " ", "%", " ", "2", " ", "=", "=",
      " ", "1", "\"", "}", " ", "|", " ", "C", "o", "n", "c", "a", "t", " ", "|", " ", "S",
      "a", "v", "e", "{", "n", "a", "m", "e", ":", "\"", "o", "d", "d", "_", "p", "a", "g",
      "e", "s", "\"", "}">>

\* backend.py, api_info syntax_examples, line 173
Doc_Pages ==
    <<"L", "o", "a", "d", "{", "u", "r", "l", ":", "\"", "h", "t", "t", "p", "s", ":", "/",
      "/", "e", "x", "a", "m", "p", "l", "e", ".", "c", "o", "m", "/", "f", "i", "l", "e", ".",
      "p", "d", "f", "\"", "}", " ", "|", " ", "S", "e", "l", "e", "c", "t", "{", "p", "a",
      "g", "e", "s", ":", "\"", "1", ",", "$", "t", "o", "t", "a", "l", "\"", "}", " ", "|",
      " ", "S", "a", "v", "e", "{", "n", "a", "m", "e", ":", "\"", "c", "o", "v", "e", "r",
      "_", "a", "n", "d", "_", "b", "a", "c", "k", "\"", "}">>

\* backend/parser_pdfl.py, test_cases, line 504
Doc_Ranges ==
    <<"L", "o", "a", "d", "{", "u", "r", "l", ":", "\"", "h", "t", "t", "p", "s", ":", "/",
      "/", "s", "p", "a", "c", "e", "4", "-", "o", "s", "s", ".", "o", "s", "s", "-", "c", "n",
      "-", "s", "h", "a", "n", "g", "h", "a", "i", ".", "a", "l", "i", "y", "u", "n", "c", "s",
      ".", "c", "o", "m", "/", "2", "0", "2", "5", ".", "7", "%", "2", "5", "E", "6", "%", "2",
      "5", "9", "C", "%", "2", "5", "8", "8", "%", "2", "5", "2", "0", "C", "%", "2", "5", "2",
      "B", "%", "2", "5", "2", "B", "%", "2", "5", "E", "5", "%", "2", "5", "8", "5", "%", "2",
      "5", "A", "5", "%", "2", "5", "E", "9", "%", "2", "5", "9", "7", "%", "2", "5", "A", "8",
      "I", "I", "%", "2", "5", "2", "0", "%", "2", "5", "E", "7", "%", "2", "5", "B", "B", "%",
      "2", "5", "9", "3", "%", "2", "5", "E", "8", "%", "2", "5", "A", "F", "%", "2", "5", "B",
      "E", "%", "2", "5", "E", "6", "%", "2", "5", "8", "A", "%", "2", "5", "A", "5", "%", "2",
      "5", "E", "5", "%", "2", "5", "9", "1", "%", "2", "5", "8", "A", ".", "p", "d", "f",
      "\"", "}", " ", "|", " ", "S", "e", "l", "e", "c", "t", "{", "p", "a", "g", "e", "s",
      ":", "\"", "1", ".", ".", "3", ",", "5", ".", ".", "7", "\"", "}", " ", "|", " ", "P",
      "N", "G", "{", "d", "p", "i", ":", "2", "0", "0", "}", " ", "|", " ", "S", "a", "v", "e",
      "{", "n", "a", "m", "e", ":", "\"", "s", "e", "l", "e", "c", "t", "e", "d", "_", "r",
      "a", "n", "g", "e", "s", "\"", "}">>

\* the stage strings the drawn pipeline texts are joined from
\* Load{url:"a.pdf"}
S_Load ==
    <<"L", "o", "a", "d", "{", "u", "r", "l", ":", "\"", "a", ".", "p", "d", "f", "\"", "}">>
\* Select{mode:"each"}
S_SelectEach ==
    <<"S", "e", "l", "e", "c", "t", "{", "m", "o", "d", "e", ":", "\"", "e", "a", "c", "h",
      "\"", "}">>
\* Select{pages:"1 $total"}
S_SelectPages ==
    <<"S", "e", "l", "e", "c", "t", "{", "p", "a", "g", "e", "s", ":", "\"", "1", " ", "$",
      "t", "o", "t", "a", "l", "\"", "}">>
\* Select{pages:"1,$total"}
S_SelectComma ==
    <<"S", "e", "l", "e", "c", "t", "{", "p", "a", "g", "e", "s", ":", "\"", "1", ",", "$",
      "t", "o", "t", "a", "l", "\"", "}">>
\* Concat
S_Concat ==
    <<"C", "o", "n", "c", "a", "t">>
\* Save{name:"out"}
S_Save ==
    <<"S", "a", "v", "e", "{", "n", "a", "m", "e", ":", "\"", "o", "u", "t", "\"", "}">>
\* Merge
S_Unknown ==
    <<"M", "e", "r", "g", "e">>

RECURSIVE Join(_)
\* " | ".join(stages)
Join(stages) ==
    IF stages = <<>> THEN <<>>
    ELSE IF Len(stages) = 1 THEN stages[1]
    ELSE stages[1] \o <<" ", "|", " ">> \o Join(Tail(stages))

PipelineStrings ==
    {Join(st) : st \in SeqsUpTo({S_Load, S_SelectEach, S_SelectPages, S_SelectComma,
                                 S_Concat, S_Save, S_Unknown}, MaxStages)}
    \cup {Doc_Each, Doc_Where, Doc_Pages, Doc_Ranges}

ParserInit ==
    \/ CallInit("_parse_value", ValueTexts)
    \/ CallInit("_parse_command", StageStrings)
    \/ CallInit("parse", PipelineStrings)

\* PDFLParser._parse_value(value_str)
parse_value_call == CallReturn("_parse_value", parse_value_text(pipeline_text))

\* PDFLParser._parse_command(cmd_str)
parse_command_call == CallReturn("_parse_command", parse_command_text(pipeline_text))

\* PDFLParser.parse(pipeline_text)
parse_call == CallReturn("parse", parse_text(pipeline_text))

ParserNext ==
    \/ parse_value_call
    \/ parse_command_call
    \/ parse_call

SpecParser == ParserInit /\ [][ParserNext]_vars

\* the documented pipelines with a quoted page set, and the text between
\* the quotes
DocumentedPages ==
    {[text |-> Doc_Pages, pages |-> <<"1", ",", "$", "t", "o", "t", "a", "l">>],
     [text |-> Doc_Ranges, pages |-> <<"1", ".", ".", "3", ",", "5", ".", ".", "7">>]}

\* C14: each documented pipeline with Select{pages:"1,$total"} or
\* Select{pages:"1..3,5..7"} parses, and its Select stage has the one
\* parameter pages, whose value is the whole text between the quotes.
C14_QuotedValueKeptWhole ==
    \A d \in DocumentedPages :
        (Returned("parse") /\ pipeline_text = d.text) =>
            /\ outcome.error = NoError
            /\ \E k \in 1..Len(outcome.commands) :
                  /\ outcome.commands[k].name = NameText.Select
                  /\ DOMAIN outcome.commands[k].params = {<<"p", "a", "g", "e", "s">>}
                  /\ outcome.commands[k].params[<<"p", "a", "g", "e", "s">>] = StrValue(d.pages)

\* the token starts and ends with the same quote character, one at each end
WrappedInQuotes(s) == Len(s) >= 2 /\ s[1] = s[Len(s)] /\ s[1] \in {"\"", "'"}

\* the token is -?digits(.digits)? from its first to its last character
NumberShape(s) ==
    LET b == IF s # <<>> /\ s[1] = "-" THEN Tail(s) ELSE s
    IN \E k \in 1..Len(b) :
          /\ \A j \in 1..k : b[j] \in Digits
          /\ \/ k = Len(b)
             \/ /\ k + 1 < Len(b)
                /\ b[k + 1] = "."
                /\ \A j \in (k + 2)..Len(b) : b[j] \in Digits

\* C19: _parse_value gives each token one variant, tested in this order: a
\* token wrapped in matching quotes is a String without the quotes; else
\* true/false in any case is a Bool; else -?digits(.digits)? is an Integer
\* without a dot and a Float with one; anything else is the token itself as
\* a String.
C19_ValueTypingOrder ==
    Returned("_parse_value") =>
        LET s == strip(pipeline_text)
        IN IF WrappedInQuotes(s) THEN outcome = StrValue(SubSeq(s, 2, Len(s) - 1))
           ELSE IF lower(s) = <<"t", "r", "u", "e">> THEN outcome = BoolValue(TRUE)
           ELSE IF lower(s) = <<"f", "a", "l", "s", "e">> THEN outcome = BoolValue(FALSE)
           ELSE IF NumberShape(s)
           THEN outcome.t = (IF \E k \in 1..Len(s) : s[k] = "." THEN "float" ELSE "int")
           ELSE outcome = StrValue(s)

\* the stage string is an identifier, alone or followed by one brace block
\* that is closed and ends the string
ConformsToStageShape(s) ==
    \E n \in 1..Len(s) :
        /\ \A j \in 1..n : s[j] \in WordChars
        /\ \/ n = Len(s)
           \/ /\ Len(s) >= n + 2
              /\ s[n + 1] = "{"
              /\ s[Len(s)] = "}"
              /\ \A j \in (n + 2)..(Len(s) - 1) : s[j] \notin {"{", "}"}

\* C20: _parse_command returns a command only for a stage string of the
\* shape identifier or identifier{...}; a string with an unclosed brace
\* block or with text after the identifier or the block raises.
C20_StageShape ==
    (Returned("_parse_command") /\ outcome.error = NoError)
        => ConformsToStageShape(strip(pipeline_text))

\* ------------------------------------------------------------ condition calls
\* the largest literal drawn as an operand of a condition template
MaxLiteral == 2

\* $page, $total and the literals
CondOperands == {<<"$", "p", "a", "g", "e">>, <<"$", "t", "o", "t", "a", "l">>} \cup {str(n) : n \in 0..MaxLiteral}

\* the operators of Python and of the condition grammar that the allowed
\* characters can write
CondOperators ==
    {<<"+">>, <<"-">>, <<"*">>, <<"/">>, <<"%">>,
     <<"=", "=">>, <<"!", "=">>, <<"<">>, <<">">>, <<"<", "=">>,
     <<">", "=">>, <<"&", "&">>, <<"|", "|">>, <<"&">>, <<"|">>,
     <<"*", "*">>, <<"/", "/">>, <<"<", "<">>, <<">", ">">>}

Spaced(words) == [k \in 1..(2 * Len(words) - 1) |-> IF k % 2 = 1 THEN words[(k + 1) \div 2] ELSE <<" ">>]

RECURSIVE Concat(_)
\* "".join(words)
Concat(words) == IF words = <<>> THEN <<>> ELSE Head(words) \o Concat(Tail(words))

\* x op y
OneOperator == {Concat(Spaced(<<x, o, y>>)) : x, y \in CondOperands, o \in CondOperators}

\* the operators drawn in pairs
PairOperators ==
    CondOperators \ {<<"!", "=">>, <<"<", "=">>, <<">", "=">>, <<">", ">">>, <<">">>, <<"|">>}

\* x op y op z; the integers of TLC cannot hold the value of a
\* power whose exponent is a power, nor a shift by a power or a product
TwoOperators ==
    {Concat(Spaced(<<w[1], w[2], w[3], w[4], w[5]>>)) :
        w \in {v \in CondOperands \X PairOperators \X CondOperands \X PairOperators \X CondOperands :
                  /\ ~(v[2] = <<"*", "*">> /\ v[4] = <<"*", "*">>)
                  /\ ~(v[2] = <<"<", "<">> /\ v[4] \in {<<"*", "*">>, <<"*">>})}}

\* $page c1 y l $page c2 w: two comparisons of the page joined by && or ||
LogicalTemplates ==
    {Concat(Spaced(<<<<"$", "p", "a", "g", "e">>, c1, y, l, <<"$", "p", "a", "g", "e">>, c2, w>>)) :
        c1, c2 \in {<<"<">>, <<">">>, <<"=", "=">>}, y, w \in {<<"1">>, <<"4">>, <<"$", "t", "o", "t", "a", "l">>},
        l \in {<<"&", "&">>, <<"|", "|">>}}

\* the example of the README and of api_info
Cond_Odd == <<"$", "p", "a", "g", "e", " ", "%", " ", "2", " ", "=", "=", " ", "1">>
\* a chained comparison, and the same with parentheses
Cond_Chain == <<"3", " ", ">", " ", "2", " ", ">", " ", "1">>
Cond_ChainParen == <<"(", "3", " ", ">", " ", "2", ")", " ", ">", " ", "1">>
\* a division by zero at page 2 only
Cond_ZeroAtTwo == <<"4", " ", "%", " ", "(", "$", "p", "a", "g", "e", " ", "-", " ", "2", ")", " ", "=", "=", " ", "0">>
\* a chain whose last operand divides by zero at page 1 only
Cond_LazyChain == <<"(", "1", " ", ">", " ", "$", "p", "a", "g", "e", " ", ">", " ", "1", " ", "/", " ", "(", "$", "p", "a", "g", "e", " ", "-", " ", "1", ")", ")", " ", "=", "=", " ", "0">>

CondExamples ==
    {Cond_Odd, Cond_Chain, Cond_ChainParen, Cond_ZeroAtTwo, Cond_LazyChain,
     <<"$", "p", "a", "g", "e", "%", "2", "=", "=", "1">>, <<"$", "p", "a", "g", "e", ">", "1", "&", "&", "$", "p", "a", "g", "e", "<", "4">>, <<"2", " ", "*", "*", " ", "-", "$", "p", "a", "g", "e", " ", "<", " ", "1">>, <<"-", "$", "p", "a", "g", "e", " ", "*", "*", " ", "2", " ", "<", " ", "-", "4">>,
     <<"$", "p", "a", "g", "e", "(", "1", ")">>, <<"(", ")", " ", "=", "=", " ", "(", ")">>, <<"$", "p", "a", "g", "e", "0", " ", "=", "=", " ", "1", "0">>, <<"0", "$", "p", "a", "g", "e", " ", "=", "=", " ", "1">>, <<"$", "p", "a", "g", "e", " ", "^", " ", "1">>,
     <<"$", "p", "a", "g", "e", " ", "=", " ", "1">>, <<"$", "p", "a", "g", "e", " ", "<", " ", "=", " ", "2">>, <<>>, <<"$", "p", "a", "g", "e", "s", " ", "=", "=", " ", "1">>}

\* every page count for the short templates, the two largest for the ones
\* with two operators
CondArgs ==
    {[condition |-> c, total_pages |-> n] :
        c \in OneOperator \cup LogicalTemplates \cup CondExamples, n \in 1..MaxTotal}
    \cup {[condition |-> c, total_pages |-> n] :
              c \in TwoOperators, n \in (MaxTotal - 1)..MaxTotal}

CondInit == CallInit("_evaluate_condition", CondArgs)

\* SelectCommand._evaluate_condition(condition, total_pages)
evaluate_condition_call ==
    CallReturn("_evaluate_condition",
               _evaluate_condition(pipeline_text.condition, pipeline_text.total_pages))

CondNext == evaluate_condition_call

SpecCond == CondInit /\ [][CondNext]_vars

\* C15: _evaluate_condition returns, in strictly ascending order, exactly
\* the indices p - 1 of the pages p of 1..N whose substituted text evaluates
\* to true; the substitution is textual ("$page0 == 10" holds at page 1
\* only, "$page == $total" at the last page only), and "$page % 2 == 1"
\* with N = 5 gives [0,2,4].
C15_ConditionEvaluation ==
    Returned("_evaluate_condition") =>
        LET c == pipeline_text.condition
            n == pipeline_text.total_pages
        IN /\ \A k \in 1..(Len(outcome) - 1) : outcome[k] < outcome[k + 1]
           /\ {outcome[k] : k \in 1..Len(outcome)}
              = {p - 1 : p \in {q \in 1..n : PageOutcome(c, q, n) = "true"}}
           /\ (c = Cond_Odd /\ n = 5) => outcome = <<0, 2, 4>>
           /\ c = <<"$", "p", "a", "g", "e", "0", " ", "=", "=", " ", "1", "0">> => outcome = <<0>>
           /\ c = <<"$", "p", "a", "g", "e", " ", "=", "=", " ", "$", "t", "o", "t", "a", "l">> => outcome = <<n - 1>>

\* "$page % 2 == 1" over 5 pages has returned [0,2,4]
C15_Witness ==
    /\ Returned("_evaluate_condition")
    /\ pipeline_text = [condition |-> Cond_Odd, total_pages |-> 5]
    /\ outcome = <<0, 2, 4>>

\* the value of an operand of a template at a page
OperandValue(word, page_num, total_pages) ==
    IF word = <<"$", "p", "a", "g", "e">> THEN page_num
    ELSE IF word = <<"$", "t", "o", "t", "a", "l">> THEN total_pages
    ELSE IntOf(word)

\* x c y for a comparison operator c of the grammar
ComparisonHolds(c, x, y) ==
    CASE c = <<"<">> -> x < y
      [] c = <<">">> -> x > y
      [] c = <<"=", "=">> -> x = y

\* C16: a template "x c1 y && z c2 w" selects exactly the pages where both
\* comparisons hold, "x c1 y || z c2 w" the pages where one of them holds
\* ("$page > 1 && $page < 4" over 5 pages: pages 2 and 3), and "3 > 2 > 1"
\* is "(3 > 2) > 1", which is not true and selects no page.
C16_GrammarSemantics ==
    Returned("_evaluate_condition") =>
        LET c == pipeline_text.condition
            n == pipeline_text.total_pages
            w == split(c, " ")
            first(p) == ComparisonHolds(w[2], OperandValue(w[1], p, n), OperandValue(w[3], p, n))
            second(p) == ComparisonHolds(w[6], OperandValue(w[5], p, n), OperandValue(w[7], p, n))
        IN /\ c \in LogicalTemplates =>
                 {outcome[k] + 1 : k \in 1..Len(outcome)}
                 = {p \in 1..n : IF w[4] = <<"&", "&">> THEN first(p) /\ second(p)
                                 ELSE first(p) \/ second(p)}
           /\ (c = <<"$", "p", "a", "g", "e", " ", ">", " ", "1", " ", "&", "&", " ", "$", "p", "a", "g", "e", " ", "<", " ", "4">> /\ n = 5) => outcome = <<1, 2>>
           /\ c = Cond_Chain => outcome = <<>>

RECURSIVE HasForeignOperator(_)
\* the text has **, //, << or >>, or a & or | that is not half of && or ||
HasForeignOperator(s) ==
    IF s = <<>> THEN FALSE
    ELSE IF Len(s) >= 2 /\ SubSeq(s, 1, 2) \in {<<"*", "*">>, <<"/", "/">>, <<"<", "<">>, <<">", ">">>} THEN TRUE
    ELSE IF Len(s) >= 2 /\ SubSeq(s, 1, 2) \in {<<"&", "&">>, <<"|", "|">>}
    THEN HasForeignOperator(SubSeq(s, 3, Len(s)))
    ELSE IF Head(s) \in {"&", "|"} THEN TRUE
    ELSE HasForeignOperator(Tail(s))

\* C17: a template with an operator outside the condition grammar (**, //,
\* <<, >>, & or |) is never evaluated to a truth value: it selects no page.
C17_GrammarOnly ==
    (Returned("_evaluate_condition") /\ HasForeignOperator(pipeline_text.condition))
        => outcome = <<>>

\* C18: a page whose substituted text raises, at parsing or at evaluation,
\* is not in the result, and every page whose text evaluates to true is,
\* whatever other page raised; "4 % ($page - 2) == 0" over 5 pages, where
\* page 2 divides by zero, gives [0,2,3].
C18_SkipPolicy ==
    Returned("_evaluate_condition") =>
        LET c == pipeline_text.condition
            n == pipeline_text.total_pages
            raised == {p \in 1..n : PageOutcome(c, p, n) = "raise"}
            held == {p \in 1..n : PageOutcome(c, p, n) = "true"}
            selected == {outcome[k] + 1 : k \in 1..Len(outcome)}
        IN /\ raised # {} => (selected \cap raised = {} /\ held \subseteq selected)
           /\ (c = Cond_ZeroAtTwo /\ n = 5) => outcome = <<0, 2, 3>>

\* "4 % ($page - 2) == 0" over 5 pages has returned [0,2,3]: page 2 raised
\* and the pages after it were evaluated
C18_Witness ==
    /\ Returned("_evaluate_condition")
    /\ pipeline_text = [condition |-> Cond_ZeroAtTwo, total_pages |-> 5]
    /\ PageOutcome(Cond_ZeroAtTwo, 2, 5) = "raise"
    /\ outcome = <<0, 2, 3>>

\* ------------------------------------------------------------ page indices
\* C24: every index _parse_pages_string returns for a document of N pages
\* is one of 0..N-1, whatever page-set string it accepts: numbers above N,
\* the number 0 and ranges that go past N included.
C24_IndicesInRange ==
    (Returned("_parse_pages_string") /\ ~outcome.raised) =>
        \A k \in 1..Len(outcome.pages) : outcome.pages[k] \in 0..(pipeline_text.total_pages - 1)

\* ------------------------------------------------------------ registry calls
\* The registry as it changes: m is the dictionary _commands, invoked the
\* registrations made so far, and every step is one call of
\* register_command, get_command or _parse_command; entry, pipeline_text and
\* outcome are the last call, its argument and its result.

\* the largest number of registrations made after the commands of lines
\* 298-463 are registered
MaxRegistrations == 2

\* the names registered and looked up: two new ones, one that is taken, and
\* one that is never registered
RegisterNames == {"Rotate", "Stamp", "Save"}
RegisterClasses == {"RotateCommand", "StampCommand"}
LookupNames == DOMAIN registry \cup {"Stamp", "Merge"}

\* Rotate, Stamp{text:"x"}, Save{name:"out"}, Merge, ...
RegistryStages ==
    {StageText(n, <<>>) : n \in LookupNames}
    \cup {T_Save, StageText("Stamp", <<Seg("text", Quoted(Str("x")))>>)}

\* the registry before line 620: Load, Select, Concat, PNG and Save
RegistryInit ==
    /\ m = [k \in DOMAIN registry \ {"Rotate"} |-> registry[k]]
    /\ entry = "CommandRegistry"
    /\ pipeline_text = <<>>
    /\ outcome = NoOutcome
    /\ invoked = <<>>
    /\ pc = "ready"
    /\ commands = <<>>
    /\ i = 0
    /\ current_stream = NoStream
    /\ err = NoError

\* CommandRegistry.register_command(name, command_class), and the decorator
\* of register(name)
register_command ==
    /\ Len(invoked) < MaxRegistrations
    /\ \E name \in RegisterNames, command_class \in RegisterClasses :
          /\ m' = [k \in DOMAIN m \cup {name} |-> IF k = name THEN command_class ELSE m[k]]
          /\ invoked' = Append(invoked, [name |-> name, cls |-> command_class])
          /\ pipeline_text' = name
    /\ entry' = "register_command"
    /\ outcome' = NoOutcome
    /\ UNCHANGED <<commands, pc, i, current_stream, err>>

\* registry.get_command(name)
get_command_call ==
    /\ \E name \in LookupNames :
          /\ pipeline_text' = name
          /\ outcome' = get_command(m, name)
    /\ entry' = "get_command"
    /\ UNCHANGED <<commands, pc, i, m, current_stream, err, invoked>>

\* PDFLParser._parse_command(cmd_str) with the registry as it is
registry_parse_command ==
    /\ \E cmd_str \in RegistryStages :
          /\ pipeline_text' = cmd_str
          /\ outcome' = parse_command_in(m, cmd_str)
    /\ entry' = "_parse_command"
    /\ UNCHANGED <<commands, pc, i, m, current_stream, err, invoked>>

RegistryNext == register_command \/ get_command_call \/ registry_parse_command

SpecRegistry == RegistryInit /\ [][RegistryNext]_vars

\* the name was registered, at line 298-463 or since
IsRegistered(name) ==
    name \in DOMAIN registry \ {"Rotate"} \/ \E k \in 1..Len(invoked) : invoked[k].name = name

\* the class the name was registered with last
RegisteredClass(name) ==
    IF \E k \in 1..Len(invoked) : invoked[k].name = name
    THEN invoked[CHOOSE k \in 1..Len(invoked) :
                    /\ invoked[k].name = name
                    /\ \A j \in 1..Len(invoked) : invoked[j].name = name => j <= k].cls
    ELSE registry[name]

\* C21: get_command of a name that is not registered raises the
\* unknown-command error with that name, and so does _parse_command of a
\* stage with that name; once a name is registered, get_command returns the
\* class registered last and _parse_command returns a command of that name
\* and class, the parser being what it was.
C21_RegistryLookup ==
    /\ entry = "get_command" =>
          IF IsRegistered(pipeline_text)
          THEN outcome = [error |-> NoError, cls |-> RegisteredClass(pipeline_text)]
          ELSE outcome.error = ValueError("unknown command", pipeline_text)
    /\ entry = "_parse_command" =>
          IF IsRegistered(pipeline_text.name)
          THEN /\ outcome.error = NoError
               /\ outcome.command.name = pipeline_text.name
               /\ outcome.command.cls = RegisteredClass(pipeline_text.name)
          ELSE /\ outcome.error = ValueError("unknown command", pipeline_text.name)
               /\ outcome.command = NoCommand

\* Stamp was registered after the parser was built and Stamp{text:"x"} has
\* parsed to a StampCommand
C21_Witness ==
    /\ entry = "_parse_command"
    /\ pipeline_text = StageText("Stamp", <<Seg("text", Quoted(Str("x")))>>)
    /\ invoked = <<[name |-> "Stamp", cls |-> "StampCommand"]>>
    /\ outcome.error = NoError
    /\ outcome.command.cls = "StampCommand"
    /\ outcome.command.params = [text |-> Str("x")]

\* ------------------------------------------------------------ surfaced errors
\* C22: when a stage fails, the error the caller of parse_and_execute gets
\* carries the index and the name of that stage and the exception the stage
\* raised as its cause.
C22_ErrorNamesStage ==
    (/\ entry = ParseAndExecute
     /\ pc = "done"
     /\ outcome.kind = "raise"
     /\ invoked # <<>>
     /\ invoked[Len(invoked)].error # NoError) =>
        LET failed == invoked[Len(invoked)]
        IN /\ "index" \in DOMAIN outcome.error
           /\ outcome.error.index = failed.index
           /\ "name" \in DOMAIN outcome.error
           /\ outcome.error.name = commands[failed.index + 1].name
           /\ "cause" \in DOMAIN outcome.error
           /\ outcome.error.cause = failed.error

\* ------------------------------------------------------------ HTTP handler
\* backend.py execute_command around one parse_and_execute call.  The world
\* m gets three more fields: cwd, the working directory of the process,
\* handler_dir, the directory the handler made, and response, what the
\* handler gave back ("pending" while it runs).  The pipeline runs with the
\* context parse_and_execute makes, its output_dir "./output" being
\* relative to the working directory.

\* the working directory of the server, and the directory the handler makes
ServerDir == "/srv"
HandlerDir == "/tmp/pdflang"

\* request.command: pipelines with and without a Save, failing ones, and
\* the empty command
HandlerTexts ==
    {<<>>, <<T_Load>>, <<T_Load, T_Save>>, <<T_Unknown>>,
     <<T_Load, T_SelectEach, T_PNG, T_Save>>, <<T_Load, T_Rotate, T_Concat>>,
     <<T_Load, T_SelectEach, T_Concat, T_Save>>}

HandlerInit ==
    /\ \E debug_mode \in BOOLEAN :
          m = World(PipelineContext(debug_mode, <<>>))
              @@ [cwd |-> ServerDir, handler_dir |-> None, response |-> "pending"]
    /\ entry = ParseAndExecute
    /\ pipeline_text \in HandlerTexts
    /\ commands = <<>>
    /\ pc = "execute_command"
    /\ i = 0
    /\ current_stream = NoStream
    /\ err = NoError
    /\ outcome = NoOutcome
    /\ invoked = <<>>

\* lines 47-57: the empty command is refused before anything is done; else
\* mkdtemp, original_cwd = os.getcwd(), os.chdir(temp_dir)
execute_command_begin ==
    /\ pc = "execute_command"
    /\ IF pipeline_text = <<>>
       THEN /\ m' = [m EXCEPT !.response = "HTTPException 400"]
            /\ pc' = "responded"
       ELSE /\ m' = [m EXCEPT !.fs_dirs = @ \cup {HandlerDir},
                              !.handler_dir = HandlerDir,
                              !.cwd = HandlerDir]
            /\ pc' = "parse"
    /\ UNCHANGED <<entry, pipeline_text, commands, i, current_stream, err, outcome, invoked>>

\* lines 62-85, parse_and_execute having returned: without an output
\* directory or a file in it HTTPException is raised inside the try; else the
\* archive is written and os.chdir(original_cwd) runs
execute_command_output ==
    /\ pc = "done"
    /\ m.response = "pending"
    /\ outcome.kind = "return"
    /\ IF m.ctx.output_dir \notin m.fs_dirs \/ m.archives = {}
       THEN /\ err' = [type |-> "HTTPException", msg |-> "no output", arg |-> ""]
            /\ pc' = "raised"
            /\ UNCHANGED m
       ELSE /\ m' = [m EXCEPT !.cwd = ServerDir]
            /\ pc' = "upload"
            /\ UNCHANGED err
    /\ UNCHANGED <<entry, pipeline_text, commands, i, current_stream, outcome, invoked>>

\* lines 87-130: the archive is moved and uploaded; every way the upload
\* ends gives a success response
execute_command_upload ==
    /\ pc = "upload"
    /\ \E uploaded \in BOOLEAN :
          m' = [m EXCEPT !.response = IF uploaded THEN "success, uploaded" ELSE "success, local file"]
    /\ pc' = "responded"
    /\ UNCHANGED <<entry, pipeline_text, commands, i, current_stream, err, outcome, invoked>>

\* parse_and_execute having raised: the exception is in flight in the try
execute_command_raised ==
    /\ pc = "done"
    /\ m.response = "pending"
    /\ outcome.kind = "raise"
    /\ pc' = "raised"
    /\ UNCHANGED <<entry, pipeline_text, commands, i, m, current_stream, err, outcome, invoked>>

\* isinstance(e, (OSError, ValueError, RuntimeError)): the exceptions of the
\* document classes come from requests, fitz and pdf2image, and may or may
\* not be of these classes
Caught(error) ==
    CASE error.type = "ValueError" -> {TRUE}
      [] error.type = "Exception" -> {TRUE, FALSE}
      [] OTHER -> {FALSE}

\* lines 132-145: except (OSError, ValueError, RuntimeError) restores the
\* working directory, removes the directory and answers with a failure; an
\* exception of another class leaves the handler as it is
execute_command_except ==
    /\ pc = "raised"
    /\ \E caught \in Caught(err) :
          m' = IF caught
               THEN [m EXCEPT !.cwd = ServerDir,
                              !.fs_dirs = @ \ {m.handler_dir},
                              !.response = "failure"]
               ELSE [m EXCEPT !.response = err.type]
    /\ pc' = "responded"
    /\ UNCHANGED <<entry, pipeline_text, commands, i, current_stream, err, outcome, invoked>>

HandlerNext ==
    \/ execute_command_begin
    \/ Next
    \/ execute_command_output
    \/ execute_command_upload
    \/ execute_command_raised
    \/ execute_command_except

SpecHandler == HandlerInit /\ [][HandlerNext]_vars

\* C27: whichever way execute_command ends after its chdir (a success
\* response, a failure response, HTTPException for missing or empty output,
\* another exception of the pipeline), the working directory is the one it
\* was entered with.
C27_WorkingDirectoryRestored ==
    (pc = "responded" /\ m.handler_dir # None) => m.cwd = ServerDir

\* ------------------------------------------------------------ no rollback
\* the name a Save command writes its archive under
SaveName(cmd) == IF HasParam(cmd.params, "name") THEN cmd.params.name.s ELSE "output"

\* C23: when a run has failed, the archive of every Save stage that returned
\* before the failing stage is still in output_dir once the error has
\* reached the caller, and the temp directory of the run is gone.
C23_NoRollback ==
    (pc = "done" /\ outcome.kind = "raise") =>
        /\ \A k \in 1..Len(invoked) :
              (invoked[k].cls = "SaveCommand" /\ invoked[k].error = NoError) =>
                  /\ m.ctx.output_dir \in m.fs_dirs
                  /\ \E a \in m.archives : a.zip = SaveName(commands[invoked[k].index + 1])
        /\ m.ctx.temp_dir # None => m.ctx.temp_dir \notin m.fs_dirs

\* Load | Save | Concat: Concat has raised at index 2, out.zip is there with
\* its file, /tmp/tmpA is not
C23_Witness ==
    /\ pc = "done"
    /\ outcome.kind = "raise"
    /\ Len(invoked) = 3
    /\ invoked[2].cls = "SaveCommand"
    /\ invoked[2].error = NoError
    /\ invoked[3].cls = "ConcatCommand"
    /\ invoked[3].error # NoError
    /\ \E a \in m.archives : a.zip = "out" /\ a.entries # {}
    /\ m.ctx.temp_dir = TempNames[1]
    /\ TempNames[1] \notin m.fs_dirs

\* ------------------------------------------------------------ state and content
\* the state of the Stream says what its content is
StateMatchesContent(stream) ==
    /\ stream.state \in {SINGLE, MULTI}
    /\ stream.state = SINGLE <=> stream.content.kind = "PDF"
    /\ stream.state = MULTI <=> stream.content.kind = "PDFList"

\* C29: every Stream a stage has returned, in any sequence of Load, Select,
\* Concat, PNG, Save and Rotate, has state SingleStream exactly when its
\* content is a PDF and MultiStream exactly when it is a PDFList.
C29_StateMatchesContent ==
    /\ \A k \in 1..Len(invoked) :
          (invoked[k].error = NoError /\ invoked[k].output # NoStream) =>
              StateMatchesContent(invoked[k].output)
    /\ current_stream # NoStream => StateMatchesContent(current_stream)
    /\ (outcome.kind = "return" /\ outcome.stream # NoStream) => StateMatchesContent(outcome.stream)

\* Load, Select of each page, PNG, Concat and Save have returned in turn:
\* single PDF, list, list, single PDF, and the same Stream again
C29_Witness ==
    /\ Len(invoked) = 5
    /\ \A k \in 1..5 : invoked[k].error = NoError
    /\ invoked[1].output.content.kind = "PDF"
    /\ invoked[2].cls = "SelectCommand"
    /\ HasParam(commands[2].params, "mode")
    /\ invoked[2].output.state = MULTI
    /\ invoked[2].output.content.kind = "PDFList"
    /\ invoked[3].cls = "PNGCommand"
    /\ invoked[3].output.state = MULTI
    /\ invoked[4].cls = "ConcatCommand"
    /\ invoked[4].output.state = SINGLE
    /\ invoked[4].output.content.kind = "PDF"
    /\ invoked[5].output = invoked[4].output

\* ------------------------------------------------------------ one context, several runs
\* The caller keeps one PipelineContext: it constructs it with temp_dir None
\* or with a directory of its own, runs parse_and_execute(text, ctx) with it
\* more than once, and calls ctx.get_temp_dir() and ctx.cleanup() between
\* the runs.  m.runs counts the runs started.

\* the largest number of runs with the one context
MaxRuns == 2

\* a directory of the caller, with a file in it
CallerDir == "/data/mine"
CallerFile == File(CallerDir, FileName("keep", 0, 0, "txt"))

\* the pipelines run with the context
ReuseTexts ==
    {<<T_Load, T_Save>>, <<T_Load, T_Save, T_SaveB>>, <<T_Load, T_Rotate, T_Concat>>,
     <<T_Load, T_SelectEach, T_PNG, T_Concat, T_Save>>, <<T_Unknown>>}

ReuseInit ==
    /\ \E debug_mode \in BOOLEAN, temp_dir \in {None, CallerDir} :
          m = [World([PipelineContext(debug_mode, <<>>) EXCEPT !.temp_dir = temp_dir])
                  EXCEPT !.fs_dirs = @ \cup {CallerDir}, !.fs_files = @ \cup {CallerFile}]
              @@ [runs |-> 1]
    /\ entry = ParseAndExecute
    /\ pipeline_text \in ReuseTexts
    /\ commands = <<>>
    /\ pc = "parse"
    /\ i = 0
    /\ current_stream = NoStream
    /\ err = NoError
    /\ outcome = NoOutcome
    /\ invoked = <<>>

\* parse_and_execute(pipeline_text, ctx) once more, the context being the
\* one of the run before
run_again ==
    /\ pc = "done"
    /\ m.runs < MaxRuns
    /\ m' = [m EXCEPT !.runs = @ + 1]
    /\ pipeline_text' \in ReuseTexts
    /\ commands' = <<>>
    /\ pc' = "parse"
    /\ i' = 0
    /\ current_stream' = NoStream
    /\ err' = NoError
    /\ outcome' = NoOutcome
    /\ invoked' = <<>>
    /\ UNCHANGED entry

\* ctx.get_temp_dir() called by the caller between two runs
caller_get_temp_dir ==
    /\ pc = "done"
    /\ Len(m.gtd) <= MaxRuns
    /\ m' = get_temp_dir(m)
    /\ UNCHANGED <<entry, pipeline_text, commands, pc, i, current_stream, err, outcome, invoked>>

\* ctx.cleanup() called by the caller between two runs
caller_cleanup ==
    /\ pc = "done"
    /\ m' = cleanup(m)
    /\ UNCHANGED <<entry, pipeline_text, commands, pc, i, current_stream, err, outcome, invoked>>

ReuseNext == Next \/ run_again \/ caller_get_temp_dir \/ caller_cleanup

SpecReuse == ReuseInit /\ [][ReuseNext]_vars

\* C25: whatever get_temp_dir, cleanup and runs a context constructed with
\* temp_dir None has been through, a temp_dir that is not None names a
\* directory that exists, and every get_temp_dir call has returned a
\* directory that exists.
C25_TempDirExists ==
    m.ctx.temp_dir # CallerDir =>
        /\ m.ctx.temp_dir # None => m.ctx.temp_dir \in m.fs_dirs
        /\ \A k \in 1..Len(m.gtd) : m.gtd[k].exists

\* C26: a step never removes a directory other than the ones mkdtemp made
\* for get_temp_dir, a context constructed with a temp_dir of the caller
\* included.
C26_CleanupOwnDirsOnly ==
    [][\A d \in m.fs_dirs \ m'.fs_dirs : \E k \in 1..Len(TempNames) : d = TempNames[k]]_vars

\* C28: in the first run of a context constructed with temp_dir None, every
\* entry of an archive was written by the Save that wrote the archive: its
\* file name starts with the name of that Save.
C28_ArchiveHoldsOwnFiles ==
    (m.runs = 1 /\ m.ctx.temp_dir # CallerDir) =>
        \A a \in m.archives : \A f \in a.entries : f.base = a.zip

\* ------------------------------------------------------------ first-version parser
\* backend/parser_pdfl.py PDFLParser on the characters of the text, next to
\* the parser of parser_pdfl_v2.py.

\* PDFLParser.COMMANDS
COMMANDS ==
    [Load |-> "LoadCommand", Select |-> "SelectCommand", Concat |-> "ConcatCommand",
     PNG |-> "PNGCommand", Save |-> "SaveCommand"]

\* _parse_value keeping true and false as strings
parse_value_v1_no_bool(value_str) ==
    LET s == strip(value_str)
    IN IF IsQuotedText(s) THEN StrValue(SubSeq(s, 2, Len(s) - 1))
       ELSE IF IsNumberText(s) THEN NumberOf(s)
       ELSE StrValue(s)

\* first-version PDFLParser._parse_value
parse_value_v1(value_str) ==
    LET s == strip(value_str)
        wrapped(q) == s # <<>> /\ s[1] = q /\ s[Len(s)] = q
    IN IF wrapped("\"") \/ wrapped("'") THEN StrValue(SubSeq(s, 2, Len(s) - 1))
       ELSE IF lower(s) = <<"t", "r", "u", "e">> THEN BoolValue(TRUE)
       ELSE IF lower(s) = <<"f", "a", "l", "s", "e">> THEN BoolValue(FALSE)
       ELSE IF IsNumberText(s) THEN NumberOf(s)
       ELSE StrValue(s)

\* first-version PDFLParser._parse_parameters: [error, params]; the first
\* pair without ':' raises, and of two pairs with one key the later stays
parse_parameters_v1(params_str) ==
    IF params_str = <<>> THEN [error |-> NoError, params |-> NoTextParams]
    ELSE LET pieces == split(params_str, ",")
             param_pairs == [k \in 1..Len(pieces) |-> strip(pieces[k])]
             colon(k) == find(param_pairs[k], ":")
             key(k) == strip(SubSeq(param_pairs[k], 1, colon(k) - 1))
             value(k) == strip(SubSeq(param_pairs[k], colon(k) + 1, Len(param_pairs[k])))
             bad == {k \in 1..Len(param_pairs) : colon(k) = 0}
             last(x) == CHOOSE k \in 1..Len(param_pairs) :
                           /\ key(k) = x
                           /\ \A j \in 1..Len(param_pairs) : key(j) = x => j <= k
         IN IF bad # {}
            THEN [error |-> ValueError("invalid parameter format",
                                       param_pairs[CHOOSE k \in bad : \A j \in bad : k <= j]),
                  params |-> NoTextParams]
            ELSE [error |-> NoError,
                  params |-> [x \in {key(k) : k \in 1..Len(param_pairs)} |->
                                 parse_value_v1(value(last(x)))]]

\* first-version PDFLParser._parse_command: [error, command]
parse_command_v1(cmd_str) ==
    LET mt == match_command(strip(cmd_str))
        known == {k \in DOMAIN COMMANDS : NameText[k] = mt.name}
        ps == parse_parameters_v1(mt.params_str)
    IN IF ~mt.matched
       THEN [error |-> ValueError("invalid command format", cmd_str), command |-> NoTextCommand]
       ELSE IF known = {}
       THEN [error |-> ValueError("unknown command", mt.name), command |-> NoTextCommand]
       ELSE IF ps.error # NoError
       THEN [error |-> ps.error, command |-> NoTextCommand]
       ELSE [error |-> NoError,
             command |-> TextCommand(mt.name, COMMANDS[CHOOSE k \in known : TRUE], ps.params)]

\* first-version PDFLParser._validate_pipeline; LoadCommand is the one
\* Generator of that file
validate_pipeline_v1(cmds) ==
    IF cmds = <<>>
    THEN ValueError("pipeline must not be empty", "")
    ELSE IF cmds[1].cls # "LoadCommand"
    THEN ValueError("first command must be a generator", cmds[1].name)
    ELSE IF \E k \in 2..Len(cmds) : cmds[k].cls = "LoadCommand"
    THEN ValueError("generator only as the first command", "Load")
    ELSE NoError

\* first-version PDFLParser.parse: [error, commands]
parse_v1(text) ==
    IF strip(text) = <<>>
    THEN [error |-> ValueError("pipeline must not be empty", ""), commands |-> <<>>]
    ELSE LET command_strings == split(strip(text), "|")
             parsed == [k \in 1..Len(command_strings) |->
                           parse_command_v1(strip(command_strings[k]))]
             failed == {k \in 1..Len(parsed) : parsed[k].error # NoError}
         IN IF failed # {}
            THEN [error |-> parsed[CHOOSE k \in failed : \A j \in failed : k <= j].error,
                  commands |-> <<>>]
            ELSE LET cmds == [k \in 1..Len(parsed) |-> parsed[k].command]
                 IN [error |-> validate_pipeline_v1(cmds),
                     commands |-> IF validate_pipeline_v1(cmds) = NoError THEN cmds ELSE <<>>]

\* the texts both parsers get: the pipelines and stage strings of the parser
\* calls, Load{url:"a.pdf"} | Save{name:v} and Select{n:v,n:"1"} for every
\* value text v, and Load{url:"a.pdf"} | Rotate
VersionTexts ==
    PipelineStrings \cup StageStrings
    \cup {S_Load \o <<" ", "|", " ", "S", "a", "v", "e", "{", "n", "a", "m", "e", ":">> \o v \o <<"}">>
          : v \in ValueTexts}
    \cup {S_Load \o <<"|", "S", "e", "l", "e", "c", "t", "{", "n", ":">> \o v
                 \o <<",", "n", ":", "\"", "1", "\"", "}">>
          : v \in ValueExamples}
    \cup {S_Load \o <<" ", "|", " ">> \o NameText.Rotate}

VersionsInit == CallInit("parse, both versions", VersionTexts)

\* the text handed to PDFLParser().parse of either file
parse_versions_call ==
    CallReturn("parse, both versions",
               [v1 |-> parse_v1(pipeline_text), v2 |-> parse_text(pipeline_text)])

VersionsNext == parse_versions_call

SpecVersions == VersionsInit /\ [][VersionsNext]_vars

\* every stage string of the text that starts with an identifier starts with
\* Load, Select, Concat, PNG or Save
UsesSharedCommands(text) ==
    LET command_strings == split(strip(text), "|")
    IN \A k \in 1..Len(command_strings) :
          LET mt == match_command(strip(command_strings[k]))
          IN mt.matched => \E n \in DOMAIN COMMANDS : NameText[n] = mt.name

\* C30: for a text that uses only Load, Select, Concat, PNG and Save, the
\* two parsers both raise, or both return lists of the same length with the
\* same name and the same parameter map at every position.
C30_ParsersAgree ==
    (Returned("parse, both versions") /\ UsesSharedCommands(pipeline_text)) =>
        /\ outcome.v1.error = NoError <=> outcome.v2.error = NoError
        /\ Len(outcome.v1.commands) = Len(outcome.v2.commands)
        /\ \A k \in 1..Len(outcome.v1.commands) :
              /\ outcome.v1.commands[k].name = outcome.v2.commands[k].name
              /\ outcome.v1.commands[k].params = outcome.v2.commands[k].params

\* Load{url:"a.pdf"} | Save{name:TRUE} went through both parsers and both
\* returned two commands, the second with name = True
C30_Witness ==
    /\ Returned("parse, both versions")
    /\ pipeline_text = S_Load \o <<" ", "|", " ", "S", "a", "v", "e", "{", "n", "a", "m", "e", ":", "T", "R", "U", "E", "}">>
    /\ outcome.v1.error = NoError
    /\ Len(outcome.v1.commands) = 2
    /\ outcome.v1.commands[2].params = [name |-> BoolValue(TRUE)]
    /\ outcome.v2.commands[2].params = [name |-> BoolValue(TRUE)]

====
